---- MODULE Spec2Model ----
(***************************************************************************)
(* Canvas block execution gateway: the execute route                       *)
(* (blocks/execute/route.ts), its execution log store                      *)
(* (workflow_execution_logs) and the execution status route.               *)
(*                                                                         *)
(* Every request is handled independently; a handler yields at each await. *)
(* The only state handlers share is the log store, so one action of the    *)
(* model is one stretch of a handler that ends with an access to the store *)
(* that can change it or depends on it: what a handler does between two    *)
(* such accesses (waiting for the action, the timer, a write that throws   *)
(* and changes nothing) touches its own variables only and commutes with   *)
(* the steps of every other handler.                                       *)
(***************************************************************************)
EXTENDS Integers, FiniteSets, Sequences, TLC

\* ------------------------------------------------------------------ bounds

\* The number of execute requests ever sent.
MaxRequests == 2

Requests == 1..MaxRequests

\* Every query and update of the routes is keyed by one execution id
\* (where executionId = E); the model follows the rows of these ids.
ExecIds == {"e1"}

\* ------------------------------------------------------------- the catalog

\* Block type tokens the callers of the model send: a block type and one that
\* resolves to nothing.
BlockTokens == {"gmail", "nonexistent"}

NoBlock == [found |-> FALSE, type |-> "none", toolId |-> "none"]

\* resolveBlock finding a descriptor for every token.
resolveBlockAnyToken(blockType) ==
    [found |-> TRUE, type |-> blockType, toolId |-> "gmail_send"]

\* resolveBlock followed by resolveToolId: getBlock(type) first, then
\* getBlockByToolName(type) with the token itself as the tool id.
resolveBlock(blockType) ==
    IF blockType = "gmail"
    THEN [found |-> TRUE, type |-> "gmail", toolId |-> "gmail_send"]
    ELSE IF blockType = "gmail_send"
         THEN [found |-> TRUE, type |-> "gmail", toolId |-> "gmail_send"]
         ELSE NoBlock

\* Canvas users: linked with a workspace, not linked, linked without one.
CanvasUsers == {"u_linked", "u_unlinked", "u_noworkspace"}

findLinkedSimUser(canvasUserId) == canvasUserId # "u_unlinked"

\* A workspace lookup that finds a workspace for every user.
findUserWorkspaceAlways(canvasUserId) == TRUE

findUserWorkspace(canvasUserId) == canvasUserId = "u_linked"

\* ---------------------------------------------------------- action outputs

NoOutput == [status |-> "absent", jobId |-> "absent", message |-> "absent",
             progress |-> -1, apiKey |-> "absent"]

EmptyOutput == [status |-> "none", jobId |-> "none", message |-> "none",
                progress |-> -1, apiKey |-> "none"]

OutSent == [status |-> "none", jobId |-> "none", message |-> "sent",
            progress |-> -1, apiKey |-> "none"]

OutSecret == [status |-> "none", jobId |-> "none", message |-> "sent",
              progress |-> -1, apiKey |-> "sk-live"]

OutJob == [status |-> "running", jobId |-> "j1", message |-> "processing",
           progress |-> 40, apiKey |-> "none"]

\* What executeTool can resolve with.
ToolResults ==
    { [success |-> TRUE, output |-> OutSent, error |-> "none"],
      [success |-> TRUE, output |-> OutSecret, error |-> "none"],
      [success |-> TRUE, output |-> OutJob, error |-> "none"],
      [success |-> FALSE, output |-> NoOutput, error |-> "boom"],
      [success |-> FALSE, output |-> NoOutput, error |-> "missing oauth token"] }

NoResult == [success |-> FALSE, output |-> NoOutput, error |-> "absent"]

\* result.output ?? {}
OrEmpty(output) == IF output = NoOutput THEN EmptyOutput ELSE output

\* redactApiKeys: credential-shaped fields are replaced before persisting.
redactApiKeys(output) ==
    [output EXCEPT !.apiKey = IF @ \in {"none", "absent"} THEN @ ELSE "[REDACTED]"]

ASYNC_STATUS_VALUES ==
    {"queued", "running", "processing", "pending", "in_progress", "in-progress", "started"}

\* The messages of the model that ASYNC_MESSAGE_PATTERN matches.
AsyncMessages == {"processing"}

\* normalizeProgress, in hundredths.
normalizeProgress(value) ==
    IF value <= 0 THEN 0
    ELSE IF value <= 1 THEN value * 100
    ELSE IF value <= 100 THEN value
    ELSE 100

NotAsync == [detected |-> FALSE, progress |-> -1, currentStep |-> "none"]

detectAsyncExecution(output) ==
    LET isRunningStatus == output.status \in ASYNC_STATUS_VALUES
        hasJobId == output.jobId \notin {"none", "absent"}
        hasMessage == output.message \notin {"none", "absent"}
        hasAsyncMessage == output.message \in AsyncMessages
    IN  IF output = NoOutput THEN NotAsync
        ELSE IF ~isRunningStatus /\ ~(hasJobId /\ hasAsyncMessage) THEN NotAsync
        ELSE [detected |-> TRUE,
              progress |-> IF output.progress >= 0
                           THEN normalizeProgress(output.progress) ELSE -1,
              currentStep |-> IF hasMessage THEN output.message
                              ELSE IF isRunningStatus THEN "Status: " \o output.status
                              ELSE "none"]

\* ------------------------------------------------------------ the log store

NoResponseData == [blockType |-> "none", output |-> NoOutput, error |-> "none",
                   success |-> FALSE, status |-> "none"]

NoRecord == [exists |-> FALSE, endedAt |-> "null", level |-> "none",
             request |-> "none", status |-> "none", response |-> NoResponseData,
             progress |-> -1, currentStep |-> "none"]

\* db.insert(workflowExecutionLogs).values(...).onConflictDoNothing(): the row
\* is keyed by execution id; an insert for an id that has a row changes nothing.
logExecutionStart(store, executionId, requestBlockType) ==
    IF store[executionId].exists THEN store
    ELSE [store EXCEPT ![executionId] =
            [exists |-> TRUE, endedAt |-> "null", level |-> "info",
             request |-> requestBlockType, status |-> "running",
             response |-> NoResponseData, progress |-> -1, currentStep |-> "none"]]

\* A completion write that records successes only.
logExecutionCompletionSuccessOnly(store, executionId, success, output, error, requestBlockType, responseBlockType) ==
    IF ~store[executionId].exists \/ ~success THEN store
    ELSE [store EXCEPT ![executionId] =
            [exists |-> TRUE, endedAt |-> "set", level |-> "info",
             request |-> requestBlockType, status |-> "completed",
             response |-> [blockType |-> responseBlockType, output |-> output,
                           error |-> error, success |-> success,
                           status |-> "completed"],
             progress |-> -1, currentStep |-> "none"]]

\* db.update(...).set({endedAt, level, executionData}).where(executionId = E)
logExecutionCompletion(store, executionId, success, output, error, requestBlockType, responseBlockType) ==
    IF ~store[executionId].exists THEN store
    ELSE [store EXCEPT ![executionId] =
            [exists |-> TRUE, endedAt |-> "set",
             level |-> IF success THEN "info" ELSE "error",
             request |-> requestBlockType,
             status |-> IF success THEN "completed" ELSE "failed",
             response |-> [blockType |-> responseBlockType, output |-> output,
                           error |-> error, success |-> success,
                           status |-> IF success THEN "completed" ELSE "failed"],
             progress |-> -1, currentStep |-> "none"]]

\* An update of the running payload that also closes the row.
logExecutionRunningClosing(store, executionId, output, requestBlockType, responseBlockType, async) ==
    IF ~store[executionId].exists THEN store
    ELSE [store EXCEPT ![executionId] =
            [@ EXCEPT !.endedAt = "set",
                      !.request = requestBlockType,
                      !.status = "running",
                      !.response = [blockType |-> responseBlockType, output |-> output,
                                    error |-> "none", success |-> TRUE,
                                    status |-> "running"],
                      !.progress = async.progress,
                      !.currentStep = async.currentStep]]

\* db.update(...).set({executionData}).where(executionId = E): endedAt and
\* level are not part of the update.
logExecutionRunning(store, executionId, output, requestBlockType, responseBlockType, async) ==
    IF ~store[executionId].exists THEN store
    ELSE [store EXCEPT ![executionId] =
            [@ EXCEPT !.request = requestBlockType,
                      !.status = "running",
                      !.response = [blockType |-> responseBlockType, output |-> output,
                                    error |-> "none", success |-> TRUE,
                                    status |-> "running"],
                      !.progress = async.progress,
                      !.currentStep = async.currentStep]]

\* ---------------------------------------------------------------- responses

NoData == [executionId |-> "none", blockType |-> "none", status |-> "none",
           output |-> NoOutput, progress |-> -1, currentStep |-> "none",
           timing |-> "none", pollUrl |-> "none"]

NoResponse == [http |-> 0, envelope |-> "none", code |-> "none",
               message |-> "none", data |-> NoData]

\* The handler's promise rejects: no response of the route is produced.
Rejected == [http |-> 0, envelope |-> "rejected", code |-> "none",
             message |-> "none", data |-> NoData]

singleResponse(data, status) ==
    [http |-> status, envelope |-> "success", code |-> "none",
     message |-> "none", data |-> data]

errorResponse(code, message, status) ==
    [http |-> status, envelope |-> "error", code |-> code,
     message |-> message, data |-> NoData]

badRequestResponse(message) == errorResponse("INVALID_PARAMS", message, 400)

userExistsResponse(message) == errorResponse("USER_EXISTS", message, 409)

internalErrorResponse(message) == errorResponse("INTERNAL_ERROR", message, 500)

pollUrl(executionId) == "/api/v1/executions/" \o executionId \o "/status"

\* A replay payload without the ?? defaults of progress and currentStep.
statusPayloadNoDefaults(existing, executionId) ==
    IF existing.endedAt = "null"
    THEN [executionId |-> executionId,
          blockType |-> IF existing.request = "none" THEN "unknown" ELSE existing.request,
          status |-> "running",
          output |-> NoOutput,
          progress |-> existing.progress,
          currentStep |-> existing.currentStep,
          timing |-> "startedAt",
          usage |-> "none",
          pollUrl |-> pollUrl(executionId)]
    ELSE [executionId |-> executionId,
          blockType |-> IF existing.response.blockType # "none" THEN existing.response.blockType
                        ELSE IF existing.request # "none" THEN existing.request
                        ELSE "unknown",
          status |-> IF existing.level = "error" THEN "failed" ELSE "completed",
          output |-> OrEmpty(existing.response.output),
          progress |-> -1,
          currentStep |-> "none",
          timing |-> "startedAt,completedAt,durationMs",
          usage |-> IF existing.response.status = "none" THEN "absent" ELSE "response.usage",
          pollUrl |-> "none"]

\* The payload buildExecutionStatusResponse builds from a row; usage is the
\* stored response's usage, absent when the row has no stored response.
statusPayload(existing, executionId) ==
    IF existing.endedAt = "null"
    THEN [executionId |-> executionId,
          blockType |-> IF existing.request = "none" THEN "unknown" ELSE existing.request,
          status |-> "running",
          output |-> NoOutput,
          progress |-> IF existing.progress < 0 THEN 0 ELSE existing.progress,
          currentStep |-> IF existing.currentStep = "none" THEN "Running"
                          ELSE existing.currentStep,
          timing |-> "startedAt",
          usage |-> "none",
          pollUrl |-> pollUrl(executionId)]
    ELSE [executionId |-> executionId,
          blockType |-> IF existing.response.blockType # "none" THEN existing.response.blockType
                        ELSE IF existing.request # "none" THEN existing.request
                        ELSE "unknown",
          status |-> IF existing.level = "error" THEN "failed" ELSE "completed",
          output |-> OrEmpty(existing.response.output),
          progress |-> -1,
          currentStep |-> "none",
          timing |-> "startedAt,completedAt,durationMs",
          usage |-> IF existing.response.status = "none" THEN "absent" ELSE "response.usage",
          pollUrl |-> "none"]

\* buildExecutionStatusResponse answering 200 whatever the row's state.
buildExecutionStatusResponseAlways200(existing, executionId) ==
    singleResponse(statusPayload(existing, executionId), 200)

buildExecutionStatusResponse(existing, executionId) ==
    singleResponse(statusPayload(existing, executionId),
                   IF existing.endedAt = "null" THEN 202 ELSE 200)

\* The duplicate check replaying terminal rows only.
isDuplicateTerminalOnly(existing) == existing.exists /\ existing.endedAt # "null"

\* The duplicate check replaying running rows only.
isDuplicateRunningOnly(existing) == existing.exists /\ existing.endedAt = "null"

\* if (existing) return buildExecutionStatusResponse(existing, executionId)
isDuplicate(existing) == existing.exists

\* lowerMessage.includes('credential') || includes('oauth') || includes('api key')
isMissingCredentials(message) == message \in {"missing oauth token"}

DbError == "db error"

\* ------------------------------------------------------------ executeWithRetry

\* How one executeWithTimeout ends: executeTool resolves with a result, it
\* rejects, or the timer fires first (reject(EXECUTION_TIMEOUT)).
AttemptOutcomes ==
    [kind : {"result"}, result : ToolResults]
        \cup [kind : {"throw", "timeout"}, result : {NoResult}]

attemptSucceeded(outcome) == outcome.kind = "result" /\ outcome.result.success

\* The message of the error an attempt rejects with.
attemptError(outcome) ==
    IF outcome.kind = "timeout" THEN "EXECUTION_TIMEOUT" ELSE "tool threw"

\* executeWithRetry, first call: made in the try block.
\* The second call is made in the try block too when the first one resolved
\* with success = false ("return await": a rejection of it is caught by the
\* catch block), or in the catch block when the first one rejected.
secondInTry(retryOnFailure, first) ==
    retryOnFailure /\ first.kind = "result" /\ ~first.result.success

secondInCatch(retryOnFailure, first) == retryOnFailure /\ first.kind # "result"

\* A third call is made by the catch block when the second one was made in the
\* try block and rejected.
thirdInCatch(retryOnFailure, first, second) ==
    secondInTry(retryOnFailure, first) /\ second.kind # "result"

\* The number of executeTool calls executeWithRetry makes, given how each
\* call it makes ends.
attemptsMade(retryOnFailure, first, second) ==
    IF thirdInCatch(retryOnFailure, first, second) THEN 3
    ELSE IF secondInTry(retryOnFailure, first) \/ secondInCatch(retryOnFailure, first) THEN 2
    ELSE 1

\* executeWithRetry: the outcome the POST handler sees, the number of
\* executeTool calls made and the number of them the timer ended.
executeWithRetry(retryOnFailure, first, second, third) ==
    LET n == attemptsMade(retryOnFailure, first, second)
        made == IF n = 1 THEN <<first>>
                ELSE IF n = 2 THEN <<first, second>>
                ELSE <<first, second, third>>
    IN  [outcome |-> made[n],
         attempts |-> n,
         timeouts |-> Cardinality({i \in 1..n : made[i].kind = "timeout"})]

\* ------------------------------------------------------- the POST handler's tail

\* The 202 the initiating request returns on the async-job path.
asyncResponse(executionId, blockType, async) ==
    singleResponse([executionId |-> executionId, blockType |-> blockType,
                    status |-> "running", output |-> NoOutput,
                    progress |-> async.progress, currentStep |-> async.currentStep,
                    timing |-> "none", pollUrl |-> pollUrl(executionId)], 202)

\* The 200 the initiating request returns for a successful result.
completedResponse(executionId, blockType, output) ==
    singleResponse([executionId |-> executionId, blockType |-> blockType,
                    status |-> "completed", output |-> OrEmpty(output),
                    progress |-> -1, currentStep |-> "none",
                    timing |-> "startedAt,completedAt,durationMs",
                    pollUrl |-> "none"], 200)

\* The error response for a result with success = false.
failureResponse(message) ==
    IF isMissingCredentials(message)
    THEN errorResponse("MISSING_CREDENTIALS", message, 400)
    ELSE errorResponse("EXECUTION_FAILED", message, 500)

\* The catch block leaving the store alone when the error is the timeout.
catchBlockSkipsTimeout(store, executionId, error, requestBlockType, responseBlockType, catchWriteOk) ==
    IF error = "EXECUTION_TIMEOUT"
    THEN [store |-> store, completed |-> 0,
          response |-> errorResponse("TIMEOUT", "Execution exceeded timeout", 504)]
    ELSE IF catchWriteOk
    THEN [store |-> logExecutionCompletion(store, executionId, FALSE, EmptyOutput, error,
                                           requestBlockType, responseBlockType),
          completed |-> 1,
          response |-> errorResponse("EXECUTION_FAILED", error, 500)]
    ELSE [store |-> store, completed |-> 0, response |-> Rejected]

\* catch (error): logStarted holds, so logExecutionCompletion(success: false)
\* is awaited, unguarded, before TIMEOUT or EXECUTION_FAILED is returned.
\* catchWriteOk = FALSE: that update throws and the handler's promise rejects.
catchBlock(store, executionId, error, requestBlockType, responseBlockType, catchWriteOk) ==
    IF catchWriteOk
    THEN [store |-> logExecutionCompletion(store, executionId, FALSE, EmptyOutput, error,
                                           requestBlockType, responseBlockType),
          completed |-> 1,
          response |-> IF error = "EXECUTION_TIMEOUT"
                       THEN errorResponse("TIMEOUT", "Execution exceeded timeout", 504)
                       ELSE errorResponse("EXECUTION_FAILED", error, 500)]
    ELSE [store |-> store, completed |-> 0, response |-> Rejected]

\* The handler from the return of executeWithRetry to its response:
\* logExecutionRunning and 202 on the async-job path, else
\* logExecutionCompletion and the result's own response; a rejection of
\* executeWithRetry, or a log write that throws (writeOk = FALSE), enters the
\* catch block.
afterExecute(store, executionId, outcome, requestBlockType, responseBlockType, writeOk, catchWriteOk) ==
    LET result == outcome.result
        stored == redactApiKeys(OrEmpty(result.output))
        async == IF result.success THEN detectAsyncExecution(result.output) ELSE NotAsync
    IN  IF outcome.kind # "result"
        THEN catchBlock(store, executionId, attemptError(outcome),
                        requestBlockType, responseBlockType, catchWriteOk)
        ELSE IF ~writeOk
        THEN catchBlock(store, executionId, DbError,
                        requestBlockType, responseBlockType, catchWriteOk)
        ELSE IF async.detected
        THEN [store |-> logExecutionRunning(store, executionId, stored, requestBlockType,
                                            responseBlockType, async),
              completed |-> 0,
              response |-> asyncResponse(executionId, responseBlockType, async)]
        ELSE [store |-> logExecutionCompletion(store, executionId, result.success, stored,
                                               result.error, requestBlockType,
                                               responseBlockType),
              completed |-> 1,
              response |-> IF result.success
                           THEN completedResponse(executionId, responseBlockType, result.output)
                           ELSE failureResponse(result.error)]

\* ------------------------------------------------ admission: the authenticator

\* The number of requests ever sent through withCanvasAuth.
MaxAdmissions == 2

Admissions == 1..MaxAdmissions

SERVICE_KEY_PREFIX == "sim_svc_"

CANVAS_SERVICE_ID == "canvas"

\* canvasScopeSchema
CanvasScopes ==
    {"blocks:execute", "blocks:list", "users:provision", "users:read",
     "executions:read", "executions:write"}

\* The x-service-key header values callers present; "none" is no header.
PresentedKeys ==
    {"none", "invalid_key", "sim_svc_missing", "sim_svc_a", "sim_svc_b",
     "sim_svc_list", "sim_svc_off", "sim_svc_old", "sim_svc_prov"}

\* hashKey: the SHA-256 hex digest, one value per key string.
hashKey(key) == "sha256:" \o key

startsWith(key, prefix) == key \in PresentedKeys \ {"none", "invalid_key"}

\* The rows of service_api_key, all with both quotas set. Keys a and b are
\* distinct keys whose stored prefixes (the first 16 characters of the key)
\* are the same; quota 0 is the "unlimited" setting. Key prov is the key of
\* the caller that provisions users.
ServiceApiKeys ==
    { [id |-> "key-a", keyHash |-> hashKey("sim_svc_a"), keyPrefix |-> "sim_svc_0000aaaa",
       serviceName |-> CANVAS_SERVICE_ID, isActive |-> TRUE, expired |-> FALSE,
       permissions |-> {"blocks:execute", "blocks:list"},
       rateLimitPerMinute |-> 1, rateLimitPerDay |-> 1],
      [id |-> "key-b", keyHash |-> hashKey("sim_svc_b"), keyPrefix |-> "sim_svc_0000aaaa",
       serviceName |-> CANVAS_SERVICE_ID, isActive |-> TRUE, expired |-> FALSE,
       permissions |-> {"blocks:execute"},
       rateLimitPerMinute |-> 1, rateLimitPerDay |-> 0],
      [id |-> "key-list", keyHash |-> hashKey("sim_svc_list"), keyPrefix |-> "sim_svc_0000dddd",
       serviceName |-> CANVAS_SERVICE_ID, isActive |-> TRUE, expired |-> FALSE,
       permissions |-> {"blocks:list"},
       rateLimitPerMinute |-> 1, rateLimitPerDay |-> 1],
      [id |-> "key-off", keyHash |-> hashKey("sim_svc_off"), keyPrefix |-> "sim_svc_0000eeee",
       serviceName |-> CANVAS_SERVICE_ID, isActive |-> FALSE, expired |-> TRUE,
       permissions |-> {},
       rateLimitPerMinute |-> 1, rateLimitPerDay |-> 1],
      [id |-> "key-old", keyHash |-> hashKey("sim_svc_old"), keyPrefix |-> "sim_svc_0000ffff",
       serviceName |-> CANVAS_SERVICE_ID, isActive |-> TRUE, expired |-> TRUE,
       permissions |-> {},
       rateLimitPerMinute |-> 1, rateLimitPerDay |-> 1],
      [id |-> "key-prov", keyHash |-> hashKey("sim_svc_prov"), keyPrefix |-> "sim_svc_0000bbbb",
       serviceName |-> CANVAS_SERVICE_ID, isActive |-> TRUE, expired |-> FALSE,
       permissions |-> {"users:provision", "users:read"},
       rateLimitPerMinute |-> 1000, rateLimitPerDay |-> 0] }

NoKeyRecord ==
    [id |-> "none", keyHash |-> "none", keyPrefix |-> "none", serviceName |-> "none",
     isActive |-> FALSE, expired |-> FALSE, permissions |-> {},
     rateLimitPerMinute |-> 0, rateLimitPerDay |-> 0]

\* select().from(serviceApiKey).where(keyHash = ..., serviceName = canvas).limit(1)
findKeyRecord(keyHash) ==
    IF \E k \in ServiceApiKeys : k.keyHash = keyHash /\ k.serviceName = CANVAS_SERVICE_ID
    THEN CHOOSE k \in ServiceApiKeys :
            k.keyHash = keyHash /\ k.serviceName = CANVAS_SERVICE_ID
    ELSE NoKeyRecord

\* A failed authentication: the code and the message of the failure.
authFailure(code, error) ==
    [authenticated |-> FALSE, code |-> code, error |-> error, context |-> NoKeyRecord]

\* The scope check of authenticateCanvasRequest.
\* A scope test satisfied by any key that holds some scope.
hasAllScopesAnyPermission(keyScopes, requiredScopes) == keyScopes # {}

hasAllScopes(keyScopes, requiredScopes) == requiredScopes \subseteq keyScopes

\* authenticateCanvasRequest checking the scopes before the active flag and
\* the expiry.
authenticateCanvasRequestScopesFirst(providedKey, requiredScopes, dbOk) ==
    IF providedKey = "none"
    THEN authFailure("MISSING_KEY", "Service API key required. Provide x-service-key header.")
    ELSE IF ~startsWith(providedKey, SERVICE_KEY_PREFIX)
    THEN authFailure("INVALID_KEY", "Invalid service API key format")
    ELSE IF ~dbOk THEN authFailure("INTERNAL_ERROR", "Authentication service error")
    ELSE LET keyRecord == findKeyRecord(hashKey(providedKey))
         IN  IF keyRecord = NoKeyRecord
             THEN authFailure("INVALID_KEY", "Invalid service API key")
             ELSE IF requiredScopes # {} /\ ~hasAllScopes(keyRecord.permissions, requiredScopes)
             THEN authFailure("INSUFFICIENT_SCOPE", "Insufficient permissions. Required scopes")
             ELSE IF ~keyRecord.isActive
             THEN authFailure("INACTIVE_KEY", "Service API key is inactive")
             ELSE IF keyRecord.expired
             THEN authFailure("EXPIRED_KEY", "Service API key has expired")
             ELSE [authenticated |-> TRUE, code |-> "none", error |-> "none",
                   context |-> keyRecord]

\* authenticateCanvasRequest: the checks in the order of the code; dbOk is
\* whether the key lookup resolves.
authenticateCanvasRequest(providedKey, requiredScopes, dbOk) ==
    IF providedKey = "none"
    THEN authFailure("MISSING_KEY", "Service API key required. Provide x-service-key header.")
    ELSE IF ~startsWith(providedKey, SERVICE_KEY_PREFIX)
    THEN authFailure("INVALID_KEY", "Invalid service API key format")
    ELSE IF ~dbOk THEN authFailure("INTERNAL_ERROR", "Authentication service error")
    ELSE LET keyRecord == findKeyRecord(hashKey(providedKey))
         IN  IF keyRecord = NoKeyRecord
             THEN authFailure("INVALID_KEY", "Invalid service API key")
             ELSE IF ~keyRecord.isActive
             THEN authFailure("INACTIVE_KEY", "Service API key is inactive")
             ELSE IF keyRecord.expired
             THEN authFailure("EXPIRED_KEY", "Service API key has expired")
             ELSE IF requiredScopes # {} /\ ~hasAllScopes(keyRecord.permissions, requiredScopes)
             THEN authFailure("INSUFFICIENT_SCOPE", "Insufficient permissions. Required scopes")
             ELSE [authenticated |-> TRUE, code |-> "none", error |-> "none",
                   context |-> keyRecord]

\* ------------------------------------------------ admission: the rate limiter

MINUTE_MS == 60 * 1000

DAY_MS == 24 * 60 * 60 * 1000

\* The x-canvas-user-id header values: none, one that is no UUID, and the
\* UUIDs of two users.
UserHeaders == {"none", "not-a-uuid", "u_linked", "u_unlinked"}

isUuid(value) == value \in {"u_linked", "u_unlinked"}

\* The storage keys of the buckets.
serviceBucketKey(context) == "svc:" \o context.serviceName \o ":" \o context.keyPrefix

userBucketKey(context, canvasUserId) ==
    serviceBucketKey(context) \o ":user:" \o canvasUserId

dayKey(key) == key \o ":day"

BucketKeys ==
    LET minuteKeys ==
            { serviceBucketKey(k) : k \in ServiceApiKeys }
                \cup { userBucketKey(k, u) : k \in ServiceApiKeys,
                                             u \in {"u_linked", "u_unlinked"} }
    IN  minuteKeys \cup { dayKey(key) : key \in minuteKeys }

NoBucket == [tokens |-> -1, lastRefillAt |-> -1]

\* A bucket configuration holding one token more than the limit.
buildConfigBurst(limit, intervalMs) ==
    [maxTokens |-> limit + 1, refillRate |-> limit, refillIntervalMs |-> intervalMs]

buildConfig(limit, intervalMs) ==
    [maxTokens |-> limit, refillRate |-> limit, refillIntervalMs |-> intervalMs]

\* Whole refill intervals passed since the bucket was last refilled.
intervalsElapsed(bucket, now, config) ==
    IF bucket = NoBucket THEN 0
    ELSE (now - bucket.lastRefillAt) \div config.refillIntervalMs

\* The bucket as a consumer finds it at time now: created full on first use,
\* refilled by refillRate for every whole interval passed, up to maxTokens.
refilled(bucket, now, config) ==
    IF bucket = NoBucket
    THEN [tokens |-> config.maxTokens, lastRefillAt |-> now]
    ELSE LET n == intervalsElapsed(bucket, now, config)
             sum == bucket.tokens + n * config.refillRate
         IN  [tokens |-> IF sum > config.maxTokens THEN config.maxTokens ELSE sum,
              lastRefillAt |-> bucket.lastRefillAt + n * config.refillIntervalMs]

\* storage.consumeTokens(key, 1, config): one token if there is one, else
\* not allowed, with the time to the next refill.
consumeTokens(bucket, now, config) ==
    LET b == refilled(bucket, now, config)
    IN  IF b.tokens >= 1
        THEN [allowed |-> TRUE, retryAfterMs |-> 0,
              bucket |-> [b EXCEPT !.tokens = @ - 1]]
        ELSE [allowed |-> FALSE,
              retryAfterMs |-> b.lastRefillAt + config.refillIntervalMs - now,
              bucket |-> b]

\* consume: a limit of zero or less is unlimited, the storage is not asked.
consume(bucket, limit, intervalMs, now) ==
    IF limit <= 0
    THEN [allowed |-> TRUE, retryAfterMs |-> 0, bucket |-> bucket]
    ELSE consumeTokens(bucket, now, buildConfig(limit, intervalMs))

\* The buckets with each per-day bucket ahead of its per-minute bucket.
bucketOrderDayFirst(context, canvasUserId) ==
    LET serviceKey == serviceBucketKey(context)
        userKey == userBucketKey(context, canvasUserId)
        perMinute == context.rateLimitPerMinute
        perDay == context.rateLimitPerDay
        service == << [key |-> dayKey(serviceKey), limit |-> perDay, intervalMs |-> DAY_MS],
                      [key |-> serviceKey, limit |-> perMinute, intervalMs |-> MINUTE_MS] >>
    IN  IF canvasUserId = "none" THEN service
        ELSE service \o
             << [key |-> dayKey(userKey), limit |-> perDay, intervalMs |-> DAY_MS],
                [key |-> userKey, limit |-> perMinute, intervalMs |-> MINUTE_MS] >>

\* The buckets enforceCanvasRateLimit goes through, in its order: service per
\* minute, service per day and, with a user id, user per minute, user per day.
bucketOrder(context, canvasUserId) ==
    LET serviceKey == serviceBucketKey(context)
        userKey == userBucketKey(context, canvasUserId)
        perMinute == context.rateLimitPerMinute
        perDay == context.rateLimitPerDay
        service == << [key |-> serviceKey, limit |-> perMinute, intervalMs |-> MINUTE_MS],
                      [key |-> dayKey(serviceKey), limit |-> perDay, intervalMs |-> DAY_MS] >>
    IN  IF canvasUserId = "none" THEN service
        ELSE service \o
             << [key |-> userKey, limit |-> perMinute, intervalMs |-> MINUTE_MS],
                [key |-> dayKey(userKey), limit |-> perDay, intervalMs |-> DAY_MS] >>

\* A catch block that lets the request through.
rateLimitCheckFailedOpen == [allowed |-> TRUE, retryAfterMs |-> 0]

\* catch (error): not allowed, retry in a minute.
rateLimitCheckFailed == [allowed |-> FALSE, retryAfterMs |-> MINUTE_MS]

\* ------------------------------------------------ admission: withCanvasAuth

\* The wrapped routes: POST blocks/execute, GET blocks, POST users/provision
\* and GET blocks/[type]/schema.
Endpoints == {"execute", "list", "provision", "schema"}

endpointOptions(endpoint) ==
    IF endpoint = "execute"
    THEN [scopes |-> {"blocks:execute"}, requireUserContext |-> TRUE]
    ELSE IF endpoint = "provision"
    THEN [scopes |-> {"users:provision"}, requireUserContext |-> FALSE]
    ELSE [scopes |-> {"blocks:list"}, requireUserContext |-> FALSE]

CANVAS_IP_ALLOWLIST == {"10.0.0.1"}

\* An allow-list check that lets a request without an address through.
isIpAllowedAbsentPasses(allowlist, ipAddress) ==
    \/ allowlist = {}
    \/ ipAddress \in {"none", ""}
    \/ ipAddress \in allowlist

\* isIpAllowed: an empty list allows every request, else the address has to
\* be present ("none" is undefined) and in the list.
isIpAllowed(allowlist, ipAddress) ==
    \/ allowlist = {}
    \/ ipAddress \notin {"none", ""} /\ ipAddress \in allowlist

\* String.prototype.trim on the header and setting values used here.
trim(s) ==
    IF s = "10.0.0.1 " THEN "10.0.0.1"
    ELSE IF s = " 10.0.0.2" THEN "10.0.0.2"
    ELSE IF s = " " THEN ""
    ELSE s

\* The values of the CANVAS_IP_ALLOWLIST setting, split at the commas: unset
\* or empty, one address, two addresses, blanks only.
AllowlistSettings ==
    {<<>>, <<"10.0.0.1">>, <<"10.0.0.1", " 10.0.0.2">>, <<" ", "">>}

\* parseAllowlist: the trimmed entries that are not empty.
parseAllowlist(value) ==
    {trim(value[i]) : i \in 1..Len(value)} \ {""}

\* The address headers of a request and the address of its peer: the
\* x-forwarded-for entries (split at the commas), x-real-ip and request.ip.
AddressHeaders ==
    [forwardedFor : {<<>>, <<"127.0.0.1">>, <<"10.0.0.1 ", "127.0.0.1">>,
                     <<"", "10.0.0.1">>},
     realIp : {"none", "10.0.0.1", "127.0.0.1"},
     peer : {"none", "10.0.0.1"}]

NoHeaders == [forwardedFor |-> <<>>, realIp |-> "none", peer |-> "none"]

\* An address resolution that reads x-real-ip before x-forwarded-for.
getRequestIpRealFirst(headers) ==
    IF headers.realIp \notin {"none", ""} THEN trim(headers.realIp)
    ELSE IF headers.forwardedFor # <<>> /\ headers.forwardedFor[1] # ""
    THEN trim(headers.forwardedFor[1])
    ELSE headers.peer

\* getRequestIp: the first x-forwarded-for entry when it is not empty, else
\* x-real-ip, else request.ip; the headers' values are trimmed.
getRequestIp(headers) ==
    IF headers.forwardedFor # <<>> /\ headers.forwardedFor[1] # ""
    THEN trim(headers.forwardedFor[1])
    ELSE IF headers.realIp \notin {"none", ""} THEN trim(headers.realIp)
    ELSE headers.peer

\* The requests callers send, by route, x-service-key, x-canvas-user-id and
\* address.
AdmissionInputs ==
    [endpoint : {"execute"}, key : PresentedKeys, canvasUserId : {"u_linked"},
     ipAddress : {"10.0.0.1"}, allowlist : {CANVAS_IP_ALLOWLIST}]
        \cup [endpoint : {"execute"}, key : {"sim_svc_a"},
              canvasUserId : UserHeaders, ipAddress : {"10.0.0.1", "127.0.0.1"},
              allowlist : {CANVAS_IP_ALLOWLIST}]
        \cup [endpoint : {"list"}, key : {"sim_svc_a"},
              canvasUserId : {"none"}, ipAddress : {"10.0.0.1"},
              allowlist : {CANVAS_IP_ALLOWLIST}]

NoAdmissionInput ==
    [endpoint |-> "none", key |-> "none", canvasUserId |-> "none", ipAddress |-> "none",
     allowlist |-> {}]

\* A mapping without the INTERNAL_ERROR case: the default case answers it.
mapAuthErrorToResponseNoInternal(code, message, requiredScopes) ==
    IF code = "INSUFFICIENT_SCOPE"
    THEN IF requiredScopes # {}
         THEN errorResponse("INSUFFICIENT_SCOPE", "Insufficient permissions", 403)
         ELSE errorResponse("FORBIDDEN", message, 403)
    ELSE errorResponse("UNAUTHORIZED", message, 401)

\* mapAuthErrorToResponse: the response of each failure code.
mapAuthErrorToResponse(code, message, requiredScopes) ==
    IF code \in {"MISSING_KEY", "INVALID_KEY", "EXPIRED_KEY", "INACTIVE_KEY"}
    THEN errorResponse("UNAUTHORIZED", message, 401)
    ELSE IF code = "INSUFFICIENT_SCOPE"
    THEN IF requiredScopes # {}
         THEN errorResponse("INSUFFICIENT_SCOPE", "Insufficient permissions", 403)
         ELSE errorResponse("FORBIDDEN", message, 403)
    ELSE IF code = "INTERNAL_ERROR"
    THEN internalErrorResponse(message)
    ELSE errorResponse("UNAUTHORIZED", message, 401)

\* canvasRequestContextSchema.safeParse: the user id header is a UUID when
\* present and the scopes are scopes of canvasScopeSchema.
contextValid(context, canvasUserId) ==
    /\ canvasUserId = "none" \/ isUuid(canvasUserId)
    /\ context.permissions \subseteq CanvasScopes

\* withCanvasAuth checking the address before the key.
beforeRateLimitIpFirst(input, dbOk) ==
    LET options == endpointOptions(input.endpoint)
        auth == authenticateCanvasRequest(input.key, options.scopes, dbOk)
        ended(stages, response) ==
            [passed |-> FALSE, auth |-> auth, stages |-> stages, response |-> response]
    IN  IF ~isIpAllowed(input.allowlist, input.ipAddress)
        THEN ended(<<"ip">>, errorResponse("FORBIDDEN", "IP address not allowed", 403))
        ELSE IF ~auth.authenticated
        THEN ended(<<"ip", "auth">>, mapAuthErrorToResponse(auth.code, auth.error, options.scopes))
        ELSE IF ~contextValid(auth.context, input.canvasUserId)
        THEN ended(<<"ip", "auth", "context">>,
                   errorResponse("INVALID_PARAMS", "Invalid request headers", 400))
        ELSE IF options.requireUserContext /\ input.canvasUserId = "none"
        THEN ended(<<"ip", "auth", "context", "headers">>,
                   errorResponse("INVALID_PARAMS", "Missing X-Canvas-User-Id header", 400))
        ELSE [passed |-> TRUE, auth |-> auth,
              stages |-> <<"ip", "auth", "context", "headers">>, response |-> NoResponse]

\* withCanvasAuth up to the rate limiter: the stages gone through, and the
\* response when one of them ends the request.
beforeRateLimit(input, dbOk) ==
    LET options == endpointOptions(input.endpoint)
        auth == authenticateCanvasRequest(input.key, options.scopes, dbOk)
        ended(stages, response) ==
            [passed |-> FALSE, auth |-> auth, stages |-> stages, response |-> response]
    IN  IF ~auth.authenticated
        THEN ended(<<"auth">>, mapAuthErrorToResponse(auth.code, auth.error, options.scopes))
        ELSE IF ~contextValid(auth.context, input.canvasUserId)
        THEN ended(<<"auth", "context">>,
                   errorResponse("INVALID_PARAMS", "Invalid request headers", 400))
        ELSE IF ~isIpAllowed(input.allowlist, input.ipAddress)
        THEN ended(<<"auth", "context", "ip">>,
                   errorResponse("FORBIDDEN", "IP address not allowed", 403))
        ELSE IF options.requireUserContext /\ input.canvasUserId = "none"
        THEN ended(<<"auth", "context", "ip", "headers">>,
                   errorResponse("INVALID_PARAMS", "Missing X-Canvas-User-Id header", 400))
        ELSE [passed |-> TRUE, auth |-> auth,
              stages |-> <<"auth", "context", "ip", "headers">>, response |-> NoResponse]

\* Math.ceil(retryAfterMs / 1000), undefined (0 here) for no or zero retryAfterMs
retryAfterSeconds(retryAfterMs) ==
    IF retryAfterMs <= 0 THEN 0 ELSE (retryAfterMs + 999) \div 1000

rateLimitResponse == errorResponse("RATE_LIMITED", "Rate limit exceeded", 429)

\* The wrapped handler, to its first write: GET blocks reads the catalog; POST
\* blocks/execute replays an existing row or resolves and calls
\* logExecutionStart (what follows is Admit and Finish).
handlerStart(store, input) ==
    IF input.endpoint # "execute" THEN store
    ELSE IF isDuplicate(store["e1"]) THEN store
    ELSE IF findLinkedSimUser(input.canvasUserId) /\ findUserWorkspace(input.canvasUserId)
    THEN logExecutionStart(store, "e1", "gmail")
    ELSE store

\* withCanvasAuth calling the handler whatever the rate limiter said.
afterRateLimitFailOpen(store, input, allowed) == handlerStart(store, input)

\* if (!rateLimitResult.allowed) return rateLimitResponse(...); return handler(...)
afterRateLimit(store, input, allowed) ==
    IF allowed THEN handlerStart(store, input) ELSE store

\* enforceCanvasRateLimit from its i-th consume on: failAt is the consume at
\* which the storage throws (0: it does not).
RECURSIVE consumeFrom(_, _, _, _, _)
consumeFrom(bkts, order, i, now, failAt) ==
    IF i > Len(order)
    THEN [allowed |-> TRUE, retryAfterMs |-> 0, buckets |-> bkts, threw |-> FALSE]
    ELSE IF order[i].limit > 0 /\ failAt = i
    THEN [allowed |-> rateLimitCheckFailed.allowed,
          retryAfterMs |-> rateLimitCheckFailed.retryAfterMs,
          buckets |-> bkts, threw |-> TRUE]
    ELSE LET res == consume(bkts[order[i].key], order[i].limit, order[i].intervalMs, now)
             after == [bkts EXCEPT ![order[i].key] = res.bucket]
         IN  IF ~res.allowed
             THEN [allowed |-> FALSE, retryAfterMs |-> res.retryAfterMs,
                   buckets |-> after, threw |-> FALSE]
             ELSE consumeFrom(after, order, i + 1, now, failAt)

\* A limiter that puts the tokens of a rejected request back.
enforceCanvasRateLimitRefunding(bkts, context, canvasUserId, now, failAt) ==
    LET res == consumeFrom(bkts, bucketOrder(context, canvasUserId), 1, now, failAt)
    IN  IF res.allowed THEN res ELSE [res EXCEPT !.buckets = bkts]

\* enforceCanvasRateLimit, the whole call.
enforceCanvasRateLimit(bkts, context, canvasUserId, now, failAt) ==
    consumeFrom(bkts, bucketOrder(context, canvasUserId), 1, now, failAt)

\* buildRequestContext: the key's context with the user id header and the
\* resolved address.
buildRequestContext(context, input) ==
    [service |-> context, canvasUserId |-> input.canvasUserId,
     ipAddress |-> input.ipAddress]

NoRequestContext ==
    [service |-> NoKeyRecord, canvasUserId |-> "none", ipAddress |-> "none"]

\* withCanvasAuth, the whole wrapper, up to the call of the handler: the
\* response when the request ends in it, and the buckets it leaves.
withCanvasAuth(bkts, input, now, dbOk, failAt) ==
    LET head == beforeRateLimit(input, dbOk)
        limit == enforceCanvasRateLimit(bkts, head.auth.context, input.canvasUserId,
                                        now, failAt)
    IN  IF ~head.passed
        THEN [admitted |-> FALSE, stage |-> "auth", buckets |-> bkts,
              response |-> head.response, retryAfter |-> 0,
              threw |-> head.auth.code = "INTERNAL_ERROR", context |-> NoRequestContext]
        ELSE IF ~limit.allowed
        THEN [admitted |-> FALSE, stage |-> "limit", buckets |-> limit.buckets,
              response |-> rateLimitResponse,
              retryAfter |-> retryAfterSeconds(limit.retryAfterMs),
              threw |-> limit.threw, context |-> NoRequestContext]
        ELSE [admitted |-> TRUE, stage |-> "handler", buckets |-> limit.buckets,
              response |-> NoResponse, retryAfter |-> 0, threw |-> FALSE,
              context |-> buildRequestContext(head.auth.context, input)]

\* A params wrapper that calls its handler without asking the rate limiter.
withCanvasAuthParamsUnlimited(bkts, input, now, dbOk, failAt) ==
    LET head == beforeRateLimit(input, dbOk)
    IN  IF ~head.passed
        THEN [admitted |-> FALSE, stage |-> "auth", buckets |-> bkts,
              response |-> head.response, retryAfter |-> 0,
              threw |-> head.auth.code = "INTERNAL_ERROR", context |-> NoRequestContext]
        ELSE [admitted |-> TRUE, stage |-> "handler", buckets |-> bkts,
              response |-> NoResponse, retryAfter |-> 0, threw |-> FALSE,
              context |-> buildRequestContext(head.auth.context, input)]

\* withCanvasAuthParams, the whole wrapper, up to the call of the handler with
\* the route's params: authenticateCanvasRequest, the context schema, the
\* allow-list, the required header, enforceCanvasRateLimit.
withCanvasAuthParams(bkts, input, now, dbOk, failAt) ==
    LET options == endpointOptions(input.endpoint)
        auth == authenticateCanvasRequest(input.key, options.scopes, dbOk)
        requestContext == buildRequestContext(auth.context, input)
        rateLimitResult == enforceCanvasRateLimit(bkts, auth.context, input.canvasUserId,
                                                  now, failAt)
        returns(response) ==
            [admitted |-> FALSE, stage |-> "auth", buckets |-> bkts,
             response |-> response, retryAfter |-> 0,
             threw |-> auth.code = "INTERNAL_ERROR", context |-> NoRequestContext]
    IN  IF ~auth.authenticated
        THEN returns(mapAuthErrorToResponse(auth.code, auth.error, options.scopes))
        ELSE IF ~contextValid(auth.context, input.canvasUserId)
        THEN returns(errorResponse("INVALID_PARAMS", "Invalid request headers", 400))
        ELSE IF ~isIpAllowed(input.allowlist, requestContext.ipAddress)
        THEN returns(errorResponse("FORBIDDEN", "IP address not allowed", 403))
        ELSE IF options.requireUserContext /\ requestContext.canvasUserId = "none"
        THEN returns(errorResponse("INVALID_PARAMS", "Missing X-Canvas-User-Id header", 400))
        ELSE IF ~rateLimitResult.allowed
        THEN [admitted |-> FALSE, stage |-> "limit", buckets |-> rateLimitResult.buckets,
              response |-> rateLimitResponse,
              retryAfter |-> retryAfterSeconds(rateLimitResult.retryAfterMs),
              threw |-> rateLimitResult.threw, context |-> NoRequestContext]
        ELSE [admitted |-> TRUE, stage |-> "handler", buckets |-> rateLimitResult.buckets,
              response |-> NoResponse, retryAfter |-> 0, threw |-> FALSE,
              context |-> requestContext]

\* ------------------------------------------------ provisioning: the store

\* The number of provisioning calls ever made.
MaxProvisions == 2

Provisions == 1..MaxProvisions

CANVAS_PROVIDER_ID == "canvas"

DEFAULT_CANVAS_USER_CREDITS == "1000000"

\* The external (Canvas) user ids of the callers.
ExternalIds ==
    {"11111111-1111-1111-1111-111111111111", "22222222-2222-2222-2222-222222222222"}

Emails == {"new@example.com", "old@example.com"}

\* The request bodies: every external id with every email, one of them also
\* with a name, and one body that fails the schema.
ProvisionBodies ==
    [canvasUserId : ExternalIds, email : Emails, name : {"none"}]
        \cup {[canvasUserId |-> "11111111-1111-1111-1111-111111111111",
                email |-> "new@example.com", name |-> "New User"]}
        \cup {[canvasUserId |-> "not-a-uuid", email |-> "invalid-email", name |-> "none"]}

NoBody == [canvasUserId |-> "none", email |-> "none", name |-> "none"]

\* userProvisioningRequestSchema.safeParse: a UUID and an email address.
userProvisioningRequestValid(body) ==
    body.canvasUserId \in ExternalIds /\ body.email \in Emails

\* deriveNameFromEmail: the local part, its segments capitalised.
deriveNameFromEmail(email) ==
    IF email = "new@example.com" THEN "New"
    ELSE IF email = "old@example.com" THEN "Old"
    ELSE "Canvas User"

derivedName(body) ==
    IF body.name # "none" THEN body.name ELSE deriveNameFromEmail(body.email)

\* name.split(' ')[0]
firstName(name) == IF name = "New User" THEN "New" ELSE name

\* The tables the provisioning, lookup and execute routes read and write. At
\* the start one account exists that was not made by provisioning.
InitialStore ==
    [user |-> {[id |-> "sim-user-0", email |-> "old@example.com", name |-> "Old"]},
     userStats |-> {[userId |-> "sim-user-0", currentUsageLimit |-> "0"]},
     account |-> {},
     workspace |-> {[id |-> "workspace-0", ownerId |-> "sim-user-0",
                     name |-> "Old's Workspace"]},
     permissions |-> {[entityId |-> "workspace-0", userId |-> "sim-user-0",
                       permissionType |-> "admin"]},
     workflow |-> {},
     workflowState |-> {}]

Tables == {"user", "userStats", "account", "workspace", "permissions", "workflow"}

insert(store, table, row) == [store EXCEPT ![table] = @ \cup {row}]

\* crypto.randomUUID(): a value no other call draws.
randomUUID(kind, p) == kind \o "-" \o ToString(p)

\* An account table without a unique index.
uniqueViolationNever(store, table, row) == FALSE

\* The unique index on account (provider_id, account_id): the insert of a
\* second link for an external id fails.
uniqueViolation(store, table, row) ==
    /\ table = "account"
    /\ \E l \in store.account :
          l.accountId = row.accountId /\ l.providerId = row.providerId

\* The error an insert that breaks a unique index throws, and any other one.
UniqueViolationMessage == "duplicate key value violates unique constraint"

FaultMessage == "connection terminated unexpectedly"

\* error.message.includes('unique')
includesUnique(message) == message = UniqueViolationMessage

\* findExistingCanvasLink: the links of the external id joined with their
\* users; limit(1) takes any one of them.
findExistingCanvasLink(store, canvasUserId) ==
    { [linkId |-> pair[1].id, userId |-> pair[1].userId, email |-> pair[2].email] :
        pair \in { q \in store.account \X store.user :
                     /\ q[1].accountId = canvasUserId
                     /\ q[1].providerId = CANVAS_PROVIDER_ID
                     /\ q[1].userId = q[2].id } }

\* A search by email that finds nobody.
findUserByEmailNobody(store, email) == {}

\* findUserByEmail: the users with the email; limit(1) takes any one.
findUserByEmail(store, email) == { u \in store.user : u.email = email }

\* The row createCanvasAccountLink inserts.
accountRow(linkId, canvasUserId, userId) ==
    [id |-> linkId, accountId |-> canvasUserId, providerId |-> CANVAS_PROVIDER_ID,
     userId |-> userId]

\* The six inserts with a workspace that is owned by nobody.
newAccountInsertsUnownedWorkspace(p, body) ==
    LET userId == randomUUID("sim-user", p)
        workspaceId == randomUUID("workspace", p)
        workflowId == randomUUID("workflow", p)
        linkId == randomUUID("link", p)
        name == derivedName(body)
    IN  << [table |-> "user",
            row |-> [id |-> userId, email |-> body.email, name |-> name]],
           [table |-> "userStats",
            row |-> [userId |-> userId,
                     currentUsageLimit |-> DEFAULT_CANVAS_USER_CREDITS]],
           [table |-> "account",
            row |-> accountRow(linkId, body.canvasUserId, userId)],
           [table |-> "workspace",
            row |-> [id |-> workspaceId, ownerId |-> "none",
                     name |-> firstName(name) \o "'s Workspace"]],
           [table |-> "permissions",
            row |-> [entityId |-> workspaceId, userId |-> userId,
                     permissionType |-> "admin"]],
           [table |-> "workflow",
            row |-> [id |-> workflowId, userId |-> userId,
                     workspaceId |-> workspaceId]] >>

\* createNewSimUser: the six inserts of its transaction, in their order.
newAccountInserts(p, body) ==
    LET userId == randomUUID("sim-user", p)
        workspaceId == randomUUID("workspace", p)
        workflowId == randomUUID("workflow", p)
        linkId == randomUUID("link", p)
        name == derivedName(body)
    IN  << [table |-> "user",
            row |-> [id |-> userId, email |-> body.email, name |-> name]],
           [table |-> "userStats",
            row |-> [userId |-> userId,
                     currentUsageLimit |-> DEFAULT_CANVAS_USER_CREDITS]],
           [table |-> "account",
            row |-> accountRow(linkId, body.canvasUserId, userId)],
           [table |-> "workspace",
            row |-> [id |-> workspaceId, ownerId |-> userId,
                     name |-> firstName(name) \o "'s Workspace"]],
           [table |-> "permissions",
            row |-> [entityId |-> workspaceId, userId |-> userId,
                     permissionType |-> "admin"]],
           [table |-> "workflow",
            row |-> [id |-> workflowId, userId |-> userId,
                     workspaceId |-> workspaceId]] >>

\* An insert that takes effect at once, outside any transaction.
txInsertAutocommit(store, ins) == insert(store, ins.table, ins.row)

\* tx.insert inside db.transaction: nothing is visible before the commit.
txInsert(store, ins) == store

RECURSIVE insertAll(_, _, _)
insertAll(store, inserts, i) ==
    IF i > Len(inserts) THEN store
    ELSE insertAll(insert(store, inserts[i].table, inserts[i].row), inserts, i + 1)

\* The commit of db.transaction: every insert of the callback at once.
txCommit(store, inserts) == insertAll(store, inserts, 1)

\* ------------------------------------------- provisioning: the responses

\* UserProvisioningResponseData; alreadyExisted is set on the 409 only.
provisioningData(simUserId, canvasUserId, email, linkId, alreadyExisted) ==
    [simUserId |-> simUserId, canvasUserId |-> canvasUserId, email |-> email,
     linkId |-> linkId, alreadyExisted |-> alreadyExisted]

NoProvisioningData == provisioningData("none", "none", "none", "none", FALSE)

\* An already-linked branch that answers as if the link were new.
existingLinkResponseAsCreated(existingLink, canvasUserId) ==
    singleResponse(provisioningData(existingLink.userId, canvasUserId,
                                    existingLink.email, existingLink.linkId, FALSE), 201)

\* The response of the branch "Canvas user already linked".
existingLinkResponse(existingLink, canvasUserId) ==
    singleResponse(provisioningData(existingLink.userId, canvasUserId,
                                    existingLink.email, existingLink.linkId, TRUE), 409)

\* The response of the branch "Link Canvas user to existing Sim account".
linkedResponse(existingUser, canvasUserId, linkId) ==
    singleResponse(provisioningData(existingUser.id, canvasUserId,
                                    existingUser.email, linkId, FALSE), 201)

\* The response after createNewSimUser.
createdResponse(result, body) ==
    singleResponse(provisioningData(result.userId, body.canvasUserId,
                                    body.email, result.linkId, FALSE), 201)

\* A catch block that reports every error as an internal one.
provisionCatchInternalOnly(message) == internalErrorResponse("Failed to provision user")

\* catch (error) of POST: a unique violation is a conflict, anything else an
\* internal error.
provisionCatch(message) ==
    IF includesUnique(message)
    THEN userExistsResponse("User provisioning conflict - please retry")
    ELSE internalErrorResponse("Failed to provision user")

\* A seeding step whose failure fails createNewSimUser.
seedOutcomeRethrow(p, seedOk) ==
    [threw |-> ~seedOk, userId |-> randomUUID("sim-user", p),
     workspaceId |-> randomUUID("workspace", p), linkId |-> randomUUID("link", p)]

\* createNewSimUser after the transaction: a failure of
\* saveWorkflowToNormalizedTables is logged, the ids are returned.
seedOutcome(p, seedOk) ==
    [threw |-> FALSE, userId |-> randomUUID("sim-user", p),
     workspaceId |-> randomUUID("workspace", p), linkId |-> randomUUID("link", p)]

\* GET users/[canvasUserId]: the link with its user, then any workspace the
\* user owns.
lookupResponses(store, canvasUserId) ==
    LET links == { q \in store.account \X store.user :
                     /\ q[1].accountId = canvasUserId
                     /\ q[1].providerId = CANVAS_PROVIDER_ID
                     /\ q[1].userId = q[2].id }
        owned(userId) == { w.id : w \in { x \in store.workspace : x.ownerId = userId } }
        info(q, workspaceId) ==
            singleResponse([canvasUserId |-> canvasUserId, simUserId |-> q[2].id,
                            simWorkspaceId |-> workspaceId, email |-> q[2].email,
                            name |-> q[2].name], 200)
    IN  IF links = {}
        THEN { errorResponse("USER_NOT_PROVISIONED",
                             "Canvas user not linked to Sim Studio", 404) }
        ELSE UNION { IF owned(q[2].id) = {} THEN { info(q, "null") }
                     ELSE { info(q, w) : w \in owned(q[2].id) } : q \in links }

\* The execute route's findLinkedSimUser and findUserWorkspace on the store:
\* the response that ends the request, none when both are found.
resolutionOutcomes(store, canvasUserId) ==
    LET links == { a \in store.account : a.accountId = canvasUserId
                                           /\ a.providerId = CANVAS_PROVIDER_ID }
        owned(userId) == { w \in store.workspace : w.ownerId = userId }
    IN  IF links = {}
        THEN { errorResponse("USER_NOT_PROVISIONED",
                             "Canvas user not linked to Sim Studio. Call /users/provision first.",
                             404) }
        ELSE { IF owned(l.userId) = {}
               THEN internalErrorResponse("User workspace not found")
               ELSE NoResponse : l \in links }

\* -------------------------------------------------------------------- state

VARIABLES
    logs,         \* workflow_execution_logs: execution id -> row
    req,          \* per request: the handler's position and local variables
    last,         \* the response the step just taken returned, and what its handler saw and did
    invocations,  \* execution id -> number of executeTool calls made for it
    completions,  \* execution id -> number of logExecutionCompletion updates applied
    retried,      \* execution id -> some handler that found no row had retryOnFailure
    late,         \* execution id -> an action abandoned by a TIMEOUT response
    firstReplay,  \* execution id -> the first replay of its row while running
    answered,     \* execution id -> the response of the handler whose log update was applied last
    adm,          \* per request in withCanvasAuth: its position and local variables
    buckets,      \* the rate limiter's storage: bucket key -> bucket
    clock,        \* Date.now(), in ms
    entered,      \* service-per-minute bucket key -> consumeTokens calls since its last refill
    lastAdm,      \* what the withCanvasAuth call that just returned went through and answered
    pdb,          \* the user, userStats, account, workspace, permissions and workflow tables
    prov,         \* per provisioning call: its position and local variables
    lastProv,     \* what the provisioning, lookup or resolution step just taken returned
    firstProv     \* external user id -> the data of the first 201 returned for it

execVars == <<req, last, invocations, completions, retried, late, firstReplay, answered>>

admVars == <<adm, buckets, clock, entered, lastAdm>>

provVars == <<pdb, prov, lastProv, firstProv>>

vars == <<logs, req, last, invocations, completions, retried, late,
          firstReplay, answered, adm, buckets, clock, entered, lastAdm,
          pdb, prov, lastProv, firstProv>>

\* The number of half minutes the clock advances.
MaxTicks == 2

TickMs == MINUTE_MS \div 2

NewAdmission ==
    [pc |-> "new", input |-> NoAdmissionInput, context |-> NoKeyRecord, idx |-> 0,
     position |-> 0]

DoneAdmission == [NewAdmission EXCEPT !.pc = "done"]

NoLastAdm ==
    [kind |-> "none", input |-> NoAdmissionInput, auth |-> authFailure("none", "none"),
     stages |-> <<>>, response |-> NoResponse, retryAfter |-> 0, consulted |-> <<>>,
     rejectedAt |-> 0, threw |-> FALSE, handlerCalled |-> FALSE, position |-> 0,
     headers |-> NoHeaders, wrapper |-> "none", context |-> NoRequestContext]

\* A provisioning call: where it is, its body, the user found by email and
\* the number of inserts its transaction has made.
NewProvision == [pc |-> "new", body |-> NoBody, existingUser |-> "none", inserted |-> 0]

DoneProvision == [NewProvision EXCEPT !.pc = "done"]

NoLastProv ==
    [kind |-> "none", call |-> 0, body |-> NoBody, canvasUserId |-> "none",
     path |-> "none", response |-> NoResponse, fault |-> FALSE,
     violation |-> FALSE, seedFailed |-> FALSE, inserted |-> 0, retryAfter |-> 0]

\* The request bodies and headers callers send: every execution id, and at
\* most one of block type, user and retryOnFailure away from the plain request.
RequestInputs ==
    { i \in [executionId : ExecIds, blockType : BlockTokens,
             canvasUserId : CanvasUsers, retryOnFailure : BOOLEAN] :
        Cardinality({f \in {"blockType", "canvasUserId", "retryOnFailure"} :
                        i[f] # [blockType |-> "gmail", canvasUserId |-> "u_linked",
                                retryOnFailure |-> FALSE][f]}) <= 1 }

NoInput == [executionId |-> "none", blockType |-> "none", canvasUserId |-> "none",
            retryOnFailure |-> FALSE]

IdleRequest == [pc |-> "idle", input |-> NoInput, responseBlockType |-> "none",
                recordExisted |-> FALSE]

DoneRequest == [pc |-> "done", input |-> NoInput, responseBlockType |-> "none",
                recordExisted |-> FALSE]

NoOutcome == [kind |-> "none", result |-> NoResult]

NoLast ==
    [kind |-> "none", input |-> NoInput, recordExisted |-> FALSE, existing |-> NoRecord,
     outcome |-> NoOutcome, attempts |-> 0, timeouts |-> 0, wrote |-> FALSE,
     logThrew |-> FALSE, afterLate |-> FALSE, response |-> NoResponse]

NoReplay == [existing |-> NoRecord, response |-> NoResponse]

Init ==
    /\ logs = [e \in ExecIds |-> NoRecord]
    /\ req = [r \in Requests |-> IdleRequest]
    /\ last = NoLast
    /\ invocations = [e \in ExecIds |-> 0]
    /\ completions = [e \in ExecIds |-> 0]
    /\ retried = [e \in ExecIds |-> FALSE]
    /\ late = [e \in ExecIds |-> "none"]
    /\ firstReplay = [e \in ExecIds |-> NoReplay]
    /\ answered = [e \in ExecIds |-> NoResponse]
    /\ adm = [a \in Admissions |-> NewAdmission]
    /\ buckets = [k \in BucketKeys |-> NoBucket]
    /\ clock = 0
    /\ entered = [k \in BucketKeys |-> 0]
    /\ lastAdm = NoLastAdm
    /\ pdb = InitialStore
    /\ prov = [p \in Provisions |-> NewProvision]
    /\ lastProv = NoLastProv
    /\ firstProv = [u \in ExternalIds |-> NoProvisioningData]

\* .then(result => { clearTimeout(timer); resolve(result) }) on a promise the
\* timer has already rejected: the late result is dropped, nothing is written.
lateCompletion(store, executionId, succeeded) == store

\* What `last` records of a handler that returns.
returned(input, existing, ex, wrote, logThrew, response) ==
    [kind |-> "execute", input |-> input, recordExisted |-> existing.exists,
     existing |-> existing, outcome |-> ex.outcome, attempts |-> ex.attempts,
     timeouts |-> ex.timeouts, wrote |-> wrote, logThrew |-> logThrew,
     afterLate |-> late[input.executionId] = "succeeded", response |-> response]

NotExecuted == [outcome |-> NoOutcome, attempts |-> 0, timeouts |-> 0]

\* POST, from the request body to the first write: findExistingExecution and
\* the replay of an existing row, else resolveBlock, findLinkedSimUser and
\* findUserWorkspace (reads of the catalog and of other tables).
Receive(r) ==
    /\ req[r].pc = "idle"
    /\ (IF r = 1 THEN TRUE ELSE req[r - 1].pc # "idle")
    /\ \E input \in RequestInputs :
          LET id == input.executionId
              existing == logs[id]
              resolved == resolveBlock(input.blockType)
              reply(response) ==
                  /\ req' = [req EXCEPT ![r] = DoneRequest]
                  /\ last' = returned(input, existing, NotExecuted, FALSE, FALSE, response)
                  /\ UNCHANGED retried
          IN  IF isDuplicate(existing)
              THEN /\ reply(buildExecutionStatusResponse(existing, id))
                   /\ firstReplay' =
                         IF existing.endedAt = "null" /\ firstReplay[id] = NoReplay
                         THEN [firstReplay EXCEPT ![id] =
                                 [existing |-> existing,
                                  response |-> buildExecutionStatusResponse(existing, id)]]
                         ELSE firstReplay
              ELSE /\ UNCHANGED firstReplay
                   /\ IF ~resolved.found
                      THEN reply(errorResponse("INVALID_BLOCK_TYPE", "Unknown block type", 400))
                      ELSE IF ~findLinkedSimUser(input.canvasUserId)
                      THEN reply(errorResponse("USER_NOT_PROVISIONED", "not linked", 404))
                      ELSE IF ~findUserWorkspace(input.canvasUserId)
                      THEN reply(errorResponse("INTERNAL_ERROR", "User workspace not found", 500))
                      ELSE /\ req' = [req EXCEPT ![r] =
                                 [pc |-> "admit", input |-> input,
                                  responseBlockType |-> resolved.type,
                                  recordExisted |-> existing.exists]]
                           /\ retried' = [retried EXCEPT ![id] = @ \/ input.retryOnFailure]
                           /\ last' = NoLast
    /\ UNCHANGED <<logs, invocations, completions, late, answered>>
    /\ UNCHANGED admVars
    /\ UNCHANGED provVars

\* await logExecutionStart(...), logStarted = true, and the first executeTool
\* call of executeWithRetry; an insert that throws is caught with logStarted
\* still false: EXECUTION_FAILED without a log write.
Admit(r) ==
    /\ req[r].pc = "admit"
    /\ LET input == req[r].input
           id == input.executionId
       IN  \/ /\ logs' = logExecutionStart(logs, id, input.blockType)
              /\ req' = [req EXCEPT ![r].pc = "exec"]
              /\ invocations' = [invocations EXCEPT ![id] = @ + 1]
              /\ last' = NoLast
           \/ /\ req' = [req EXCEPT ![r] = DoneRequest]
              /\ last' = returned(input, [NoRecord EXCEPT !.exists = req[r].recordExisted],
                                  NotExecuted, TRUE, TRUE,
                                  errorResponse("EXECUTION_FAILED", DbError, 500))
              /\ UNCHANGED <<logs, invocations>>
    /\ UNCHANGED <<completions, retried, late, firstReplay, answered>>
    /\ UNCHANGED admVars
    /\ UNCHANGED provVars

\* executeWithRetry settles, the handler logs the outcome and returns.
Finish(r) ==
    /\ req[r].pc = "exec"
    /\ \E first \in AttemptOutcomes :
       \E second \in (IF attemptsMade(req[r].input.retryOnFailure, first, first) = 1
                      THEN {first} ELSE AttemptOutcomes) :
       \E third \in (IF attemptsMade(req[r].input.retryOnFailure, first, second) < 3
                     THEN {first} ELSE AttemptOutcomes) :
       \E writeOk \in BOOLEAN :
       \E catchWriteOk \in BOOLEAN :
          LET input == req[r].input
              id == input.executionId
              ex == executeWithRetry(input.retryOnFailure, first, second, third)
              tail == afterExecute(logs, id, ex.outcome, input.blockType,
                                   req[r].responseBlockType, writeOk, catchWriteOk)
          IN  \* write results that are never looked at are fixed
              /\ ex.outcome.kind # "result" => writeOk
              /\ (ex.outcome.kind = "result" /\ writeOk) => catchWriteOk
              /\ logs' = tail.store
              /\ completions' = [completions EXCEPT ![id] = @ + tail.completed]
              /\ invocations' = [invocations EXCEPT ![id] = @ + ex.attempts - 1]
              /\ answered' = IF tail.response # Rejected
                             THEN [answered EXCEPT ![id] = tail.response]
                             ELSE answered
              /\ late' = IF tail.response.code = "TIMEOUT" /\ late[id] = "none"
                         THEN [late EXCEPT ![id] = "pending"]
                         ELSE late
              /\ last' = returned(input, [NoRecord EXCEPT !.exists = req[r].recordExisted],
                                  ex, TRUE, ex.outcome.kind = "result" /\ ~writeOk,
                                  tail.response)
              /\ req' = [req EXCEPT ![r] = DoneRequest]
    /\ UNCHANGED <<retried, firstReplay>>
    /\ UNCHANGED admVars
    /\ UNCHANGED provVars

\* The action a TIMEOUT response abandoned settles.
LateResolve(e) ==
    /\ late[e] = "pending"
    /\ \E succeeded \in BOOLEAN :
          /\ late' = [late EXCEPT ![e] = IF succeeded THEN "succeeded" ELSE "none"]
          /\ logs' = lateCompletion(logs, e, succeeded)
    /\ last' = NoLast
    /\ UNCHANGED <<req, invocations, completions, retried, firstReplay, answered>>
    /\ UNCHANGED admVars
    /\ UNCHANGED provVars

notFoundResponse == errorResponse("NOT_FOUND", "Execution not found", 404)

\* The payload the status route builds from the row it selected:
\* requestData and responseData first, then runningPayload or completedPayload.
statusRoutePayload(log, executionId) ==
    LET requestBlockType == log.request
        responseData == log.response
    IN  IF log.endedAt = "null"
        THEN [executionId |-> executionId,
              blockType |-> IF requestBlockType # "none" THEN requestBlockType ELSE "unknown",
              status |-> "running",
              output |-> NoOutput,
              progress |-> IF log.progress >= 0 THEN log.progress ELSE 0,
              currentStep |-> IF log.currentStep # "none" THEN log.currentStep ELSE "Running",
              timing |-> "startedAt",
              usage |-> "none",
              pollUrl |-> pollUrl(executionId)]
        ELSE [executionId |-> executionId,
              blockType |-> IF responseData.blockType # "none" THEN responseData.blockType
                            ELSE IF requestBlockType # "none" THEN requestBlockType
                            ELSE "unknown",
              status |-> IF log.level = "error" THEN "failed" ELSE "completed",
              output |-> OrEmpty(responseData.output),
              progress |-> -1,
              currentStep |-> "none",
              timing |-> "startedAt,completedAt,durationMs",
              usage |-> IF responseData.status = "none" THEN "absent" ELSE "response.usage",
              pollUrl |-> "none"]

\* GET executions/:executionId/status: NextResponse.json({success, data}), 200.
statusRoute(store, executionId) ==
    IF ~store[executionId].exists THEN notFoundResponse
    ELSE singleResponse(statusRoutePayload(store[executionId], executionId), 200)

\* A status handler that closes the row it reads.
statusHandlerClosing(store, executionId, dbOk) ==
    [store |-> IF dbOk /\ store[executionId].exists
               THEN [store EXCEPT ![executionId].endedAt = "set"]
               ELSE store,
     response |-> IF dbOk THEN statusRoute(store, executionId) ELSE notFoundResponse]

\* The handler of the status route: its one access to the table is the select
\* of the row; a select that throws is answered like a missing row.
statusHandler(store, executionId, dbOk) ==
    [store |-> store,
     response |-> IF dbOk THEN statusRoute(store, executionId) ELSE notFoundResponse]

\* A status request for an execution id.
StatusPoll(e) ==
    /\ \E dbOk \in BOOLEAN :
          LET out == statusHandler(logs, e, dbOk)
          IN  /\ logs' = out.store
              /\ last' = [NoLast EXCEPT !.kind = "status",
                                        !.input = [NoInput EXCEPT !.executionId = e],
                                        !.recordExisted = logs[e].exists,
                                        !.existing = logs[e],
                                        !.logThrew = ~dbOk,
                                        !.response = out.response]
    /\ UNCHANGED <<req, invocations, completions, retried, late, firstReplay, answered>>
    /\ UNCHANGED admVars
    /\ UNCHANGED provVars

Next ==
    \/ \E r \in Requests : Receive(r)
    \/ \E r \in Requests : Admit(r)
    \/ \E r \in Requests : Finish(r)
    \/ \E e \in ExecIds : LateResolve(e)
    \/ \E e \in ExecIds : StatusPoll(e)

Spec == Init /\ [][Next]_vars

\* An id taken from the idempotency key before context.executionId.
executionIdOfKeyFirst(contextExecutionId, idempotencyKey, uuid) ==
    IF idempotencyKey # "none" THEN idempotencyKey
    ELSE IF contextExecutionId # "none" THEN contextExecutionId
    ELSE uuid

\* context?.executionId ?? serviceContext.idempotencyKey ?? crypto.randomUUID():
\* "none" is undefined, the only value ?? passes over (the empty string is
\* kept); the idempotency key is the x-idempotency-key header.
executionIdOf(contextExecutionId, idempotencyKey, uuid) ==
    IF contextExecutionId # "none" THEN contextExecutionId
    ELSE IF idempotencyKey # "none" THEN idempotencyKey
    ELSE uuid

\* What crypto.randomUUID() returns: an id no request has had.
Uuids == {"uuid-" \o ToString(n) : n \in 1..(MaxRequests + 1)}

\* The ids requests carry: context.executionId (absent, empty, two ids) and
\* the x-idempotency-key header (absent, a key, a key equal to an id).
CarriedIds ==
    [contextExecutionId : {"none", "", "e1", "e2"}, idempotencyKey : {"none", "k1", "e1"}]

\* POST of a request that resolves, from the derivation of the execution id
\* to findExistingExecution and, when no row is found, logExecutionStart: the
\* rows are those of the requests that found none; found is the request whose
\* row was found (0: none).
Identify(r) ==
    /\ req[r].pc = "idle"
    /\ (IF r = 1 THEN TRUE ELSE req[r - 1].pc # "idle")
    /\ \E carried \in CarriedIds :
       \E uuid \in Uuids \ {req[q].input.executionId : q \in Requests} :
          LET id == executionIdOf(carried.contextExecutionId, carried.idempotencyKey, uuid)
              owners == {q \in Requests : /\ req[q].pc = "done"
                                          /\ req[q].input.executionId = id
                                          /\ ~req[q].recordExisted}
              input == [executionId |-> id, blockType |-> "gmail",
                        canvasUserId |-> "u_linked", retryOnFailure |-> FALSE,
                        contextExecutionId |-> carried.contextExecutionId,
                        idempotencyKey |-> carried.idempotencyKey,
                        found |-> IF owners = {} THEN 0 ELSE CHOOSE q \in owners : TRUE]
          IN  /\ (carried.contextExecutionId # "none" \/ carried.idempotencyKey # "none")
                    => uuid = CHOOSE u \in Uuids \ {req[q].input.executionId : q \in Requests} : TRUE
              /\ req' = [req EXCEPT ![r] = [DoneRequest EXCEPT !.input = input,
                                                               !.recordExisted = owners # {}]]
              /\ last' = [NoLast EXCEPT !.kind = "identify", !.input = input,
                                        !.recordExisted = owners # {}]
    /\ UNCHANGED <<logs, invocations, completions, retried, late, firstReplay, answered>>
    /\ UNCHANGED admVars
    /\ UNCHANGED provVars

IdentifyNext == \E r \in Requests : Identify(r)

IdentifySpec == Init /\ [][IdentifyNext]_vars

\* ---------------------------------------------------- provisioning: steps

answerProvision(p, body, path, response) ==
    [NoLastProv EXCEPT !.kind = "provision", !.call = p, !.body = body,
                       !.canvasUserId = body.canvasUserId, !.path = path,
                       !.response = response]

\* What the catch block of POST answers to an error thrown by the store.
thrownProvision(p, body, path, message) ==
    [answerProvision(p, body, path, provisionCatch(message)) EXCEPT
        !.fault = (message = FaultMessage),
        !.violation = (message = UniqueViolationMessage)]

\* The first 201 an external id was answered.
recordFirst(first, response) ==
    IF response.http = 201 /\ first[response.data.canvasUserId] = NoProvisioningData
    THEN [first EXCEPT ![response.data.canvasUserId] = response.data]
    ELSE first

\* An insert of a link waits while another transaction holds an uncommitted
\* link of the same external id.
linkHeld(p, canvasUserId) ==
    \E q \in Provisions \ {p} :
        /\ prov[q].pc = "tx"
        /\ prov[q].inserted >= 3
        /\ prov[q].body.canvasUserId = canvasUserId

\* The request of the caller that provisions users, as withCanvasAuth sees it.
ProvisionCall ==
    [endpoint |-> "provision", key |-> "sim_svc_prov", canvasUserId |-> "none",
     ipAddress |-> "10.0.0.1", allowlist |-> CANVAS_IP_ALLOWLIST]

\* POST users/provision: withCanvasAuth, then the handler from the body to
\* findExistingCanvasLink. authOk is whether the key lookup resolves, failAt
\* the consume at which the bucket storage throws, dbOk whether the link
\* lookup resolves.
BeginProvision(p) ==
    /\ prov[p].pc = "new"
    /\ (IF p = 1 THEN TRUE ELSE prov[p - 1].pc # "new")
    /\ \E authOk \in BOOLEAN :
       \E failAt \in 0..1 :
          LET gate == withCanvasAuth(buckets, ProvisionCall, clock, authOk, failAt)
          IN  /\ authOk \/ failAt = 0
              /\ buckets' = gate.buckets
              /\ IF ~gate.admitted
                 THEN /\ prov' = [prov EXCEPT ![p] = DoneProvision]
                      /\ lastProv' = [answerProvision(p, NoBody, gate.stage, gate.response)
                                        EXCEPT !.fault = gate.threw,
                                               !.retryAfter = gate.retryAfter]
                 ELSE \E body \in ProvisionBodies :
                      \E dbOk \in BOOLEAN :
                         LET links == findExistingCanvasLink(pdb, body.canvasUserId)
                         IN  IF ~userProvisioningRequestValid(body)
                             THEN /\ dbOk
                                  /\ prov' = [prov EXCEPT ![p] = DoneProvision]
                                  /\ lastProv' = answerProvision(p, body, "invalid",
                                                     badRequestResponse("Validation failed"))
                             ELSE IF ~dbOk
                             THEN /\ prov' = [prov EXCEPT ![p] = DoneProvision]
                                  /\ lastProv' = thrownProvision(p, body, "lookup",
                                                                  FaultMessage)
                             ELSE IF links # {}
                             THEN /\ prov' = [prov EXCEPT ![p] = DoneProvision]
                                  /\ \E existingLink \in links :
                                        lastProv' = answerProvision(p, body, "linked",
                                            existingLinkResponse(existingLink,
                                                                 body.canvasUserId))
                             ELSE /\ prov' = [prov EXCEPT ![p] = [NewProvision EXCEPT
                                                        !.pc = "email", !.body = body]]
                                  /\ lastProv' = NoLastProv
    /\ UNCHANGED <<pdb, firstProv, logs>>
    /\ UNCHANGED execVars
    /\ UNCHANGED <<adm, clock, entered, lastAdm>>

\* findUserByEmail.
FindEmail(p) ==
    /\ prov[p].pc = "email"
    /\ \E dbOk \in BOOLEAN :
          LET body == prov[p].body
              users == findUserByEmail(pdb, body.email)
          IN  IF ~dbOk
              THEN /\ prov' = [prov EXCEPT ![p] = DoneProvision]
                   /\ lastProv' = thrownProvision(p, body, "email", FaultMessage)
              ELSE IF users # {}
              THEN /\ \E existingUser \in users :
                         prov' = [prov EXCEPT ![p].pc = "link",
                                              ![p].existingUser = existingUser.id]
                   /\ lastProv' = NoLastProv
              ELSE /\ prov' = [prov EXCEPT ![p].pc = "tx"]
                   /\ lastProv' = NoLastProv
    /\ UNCHANGED <<pdb, firstProv, logs>>
    /\ UNCHANGED execVars
    /\ UNCHANGED admVars

\* createCanvasAccountLink for the user found by email, and the 201.
InsertLink(p) ==
    /\ prov[p].pc = "link"
    /\ ~linkHeld(p, prov[p].body.canvasUserId)
    /\ \E dbOk \in BOOLEAN :
          LET body == prov[p].body
              linkId == randomUUID("link", p)
              row == accountRow(linkId, body.canvasUserId, prov[p].existingUser)
              existingUser == CHOOSE u \in pdb.user : u.id = prov[p].existingUser
              response == linkedResponse(existingUser, body.canvasUserId, linkId)
          IN  /\ prov' = [prov EXCEPT ![p] = DoneProvision]
              /\ IF ~dbOk
                 THEN /\ lastProv' = thrownProvision(p, body, "link", FaultMessage)
                      /\ UNCHANGED <<pdb, firstProv>>
                 ELSE IF uniqueViolation(pdb, "account", row)
                 THEN /\ lastProv' = thrownProvision(p, body, "link",
                                                     UniqueViolationMessage)
                      /\ UNCHANGED <<pdb, firstProv>>
                 ELSE /\ pdb' = insert(pdb, "account", row)
                      /\ lastProv' = answerProvision(p, body, "link", response)
                      /\ firstProv' = recordFirst(firstProv, response)
    /\ UNCHANGED logs
    /\ UNCHANGED execVars
    /\ UNCHANGED admVars

\* One insert of createNewSimUser's transaction; the sixth is followed by the
\* commit. An insert that throws rolls the transaction back.
TxInsert(p) ==
    /\ prov[p].pc = "tx"
    /\ \E dbOk \in BOOLEAN :
          LET body == prov[p].body
              inserts == newAccountInserts(p, body)
              i == prov[p].inserted + 1
              ins == inserts[i]
          IN  /\ ins.table = "account" => ~linkHeld(p, body.canvasUserId)
              /\ IF ~dbOk
                 THEN /\ prov' = [prov EXCEPT ![p] = DoneProvision]
                      /\ lastProv' = [thrownProvision(p, body, "new", FaultMessage)
                                         EXCEPT !.inserted = prov[p].inserted]
                      /\ UNCHANGED pdb
                 ELSE IF uniqueViolation(pdb, ins.table, ins.row)
                 THEN /\ prov' = [prov EXCEPT ![p] = DoneProvision]
                      /\ lastProv' = [thrownProvision(p, body, "new",
                                                      UniqueViolationMessage)
                                         EXCEPT !.inserted = prov[p].inserted]
                      /\ UNCHANGED pdb
                 ELSE IF i < Len(inserts)
                 THEN /\ prov' = [prov EXCEPT ![p].inserted = i]
                      /\ pdb' = txInsert(pdb, ins)
                      /\ lastProv' = NoLastProv
                 ELSE /\ prov' = [prov EXCEPT ![p].pc = "seed", ![p].inserted = 0]
                      /\ pdb' = txCommit(txInsert(pdb, ins), inserts)
                      /\ lastProv' = NoLastProv
    /\ UNCHANGED <<firstProv, logs>>
    /\ UNCHANGED execVars
    /\ UNCHANGED admVars

\* saveWorkflowToNormalizedTables after the commit, and the 201.
SeedWorkflow(p) ==
    /\ prov[p].pc = "seed"
    /\ \E seedOk \in BOOLEAN :
          LET body == prov[p].body
              result == seedOutcome(p, seedOk)
              response == IF result.threw THEN provisionCatch(FaultMessage)
                          ELSE createdResponse(result, body)
          IN  /\ prov' = [prov EXCEPT ![p] = DoneProvision]
              /\ pdb' = IF seedOk
                        THEN [pdb EXCEPT !.workflowState =
                                 @ \cup {randomUUID("workflow", p)}]
                        ELSE pdb
              /\ lastProv' = [answerProvision(p, body, "new", response) EXCEPT
                                 !.seedFailed = ~seedOk]
              /\ firstProv' = recordFirst(firstProv, response)
    /\ UNCHANGED logs
    /\ UNCHANGED execVars
    /\ UNCHANGED admVars

\* GET users/[canvasUserId] for an external id.
LookupUser(u) ==
    /\ \E response \in lookupResponses(pdb, u) :
          lastProv' = [NoLastProv EXCEPT !.kind = "lookup", !.canvasUserId = u,
                                         !.response = response]
    /\ UNCHANGED <<pdb, prov, firstProv, logs>>
    /\ UNCHANGED execVars
    /\ UNCHANGED admVars

\* The user and workspace resolution of an execute request for an external id.
ResolveUser(u) ==
    /\ \E response \in resolutionOutcomes(pdb, u) :
          lastProv' = [NoLastProv EXCEPT !.kind = "execute", !.canvasUserId = u,
                                         !.response = response]
    /\ UNCHANGED <<pdb, prov, firstProv, logs>>
    /\ UNCHANGED execVars
    /\ UNCHANGED admVars

ProvisionNext ==
    \/ \E p \in Provisions : BeginProvision(p)
    \/ \E p \in Provisions : FindEmail(p)
    \/ \E p \in Provisions : InsertLink(p)
    \/ \E p \in Provisions : TxInsert(p)
    \/ \E p \in Provisions : SeedWorkflow(p)
    \/ \E u \in ExternalIds : LookupUser(u)
    \/ \E u \in ExternalIds : ResolveUser(u)

ProvisionSpec == Init /\ [][ProvisionNext]_vars

\* ------------------------------------------------------- admission: the steps

\* withCanvasAuth from the call to the rate limiter: authenticateCanvasRequest
\* (one key lookup), the context schema, the allow-list, the required headers.
Authenticate(a) ==
    /\ adm[a].pc = "new"
    /\ (IF a = 1 THEN TRUE ELSE adm[a - 1].pc # "new")
    /\ \E input \in AdmissionInputs :
       \E dbOk \in BOOLEAN :
          LET head == beforeRateLimit(input, dbOk)
          IN  /\ dbOk \/ startsWith(input.key, SERVICE_KEY_PREFIX)
              /\ IF head.passed
                 THEN /\ adm' = [adm EXCEPT ![a] =
                            [pc |-> "limit", input |-> input, context |-> head.auth.context,
                             idx |-> 1, position |-> 0]]
                      /\ lastAdm' = NoLastAdm
                 ELSE /\ adm' = [adm EXCEPT ![a] = DoneAdmission]
                      /\ lastAdm' = [NoLastAdm EXCEPT
                                       !.kind = "admission", !.input = input,
                                       !.auth = head.auth, !.stages = head.stages,
                                       !.response = head.response]
    /\ UNCHANGED <<logs, buckets, clock, entered>>
    /\ UNCHANGED execVars
    /\ UNCHANGED provVars

\* enforceCanvasRateLimit, one consume at a time, and what withCanvasAuth does
\* with its result: the 429, or the call of the handler.
Consume(a) ==
    /\ adm[a].pc = "limit"
    /\ \E storageOk \in BOOLEAN :
          LET input == adm[a].input
              order == bucketOrder(adm[a].context, input.canvasUserId)
              b == order[adm[a].idx]
              asked == b.limit > 0
              res == consume(buckets[b.key], b.limit, b.intervalMs, clock)
              consulted == SelectSeq([i \in 1..adm[a].idx |-> order[i]],
                                     LAMBDA o : o.limit > 0)
              count == IF ~asked \/ adm[a].idx # 1 THEN entered[b.key]
                       ELSE IF buckets[b.key] = NoBucket
                               \/ intervalsElapsed(buckets[b.key], clock,
                                                   buildConfig(b.limit, b.intervalMs)) > 0
                       THEN 1 ELSE entered[b.key] + 1
              position == IF adm[a].idx = 1 THEN count ELSE adm[a].position
              returns == ~storageOk \/ ~res.allowed \/ adm[a].idx = Len(order)
              result == IF ~storageOk THEN rateLimitCheckFailed
                        ELSE [allowed |-> res.allowed, retryAfterMs |-> res.retryAfterMs]
              stages == <<"auth", "context", "ip", "headers", "limit">>
              answer == [NoLastAdm EXCEPT
                           !.kind = "admission", !.input = input,
                           !.auth = [authenticated |-> TRUE, code |-> "none",
                                     error |-> "none", context |-> adm[a].context],
                           !.stages = stages, !.consulted = consulted,
                           !.position = position, !.threw = ~storageOk]
          IN  /\ asked \/ storageOk
              /\ IF storageOk
                 THEN /\ buckets' = [buckets EXCEPT ![b.key] = res.bucket]
                      /\ entered' = [entered EXCEPT ![b.key] = count]
                 ELSE UNCHANGED <<buckets, entered>>
              /\ IF ~returns
                 THEN /\ adm' = [adm EXCEPT ![a].idx = @ + 1, ![a].position = position]
                      /\ lastAdm' = NoLastAdm
                      /\ UNCHANGED logs
                 ELSE /\ adm' = [adm EXCEPT ![a] = DoneAdmission]
                      /\ logs' = afterRateLimit(logs, input, result.allowed)
                      /\ lastAdm' =
                            IF result.allowed
                            THEN [answer EXCEPT !.stages = Append(stages, "handler"),
                                                !.handlerCalled = TRUE]
                            ELSE [answer EXCEPT
                                    !.response = rateLimitResponse,
                                    !.retryAfter = retryAfterSeconds(result.retryAfterMs),
                                    !.rejectedAt = adm[a].idx]
    /\ UNCHANGED clock
    /\ UNCHANGED execVars
    /\ UNCHANGED provVars

\* Time passes, half a minute at a time; a request goes through the rate
\* limiter within one of them.
Tick ==
    /\ clock < MaxTicks * TickMs
    /\ \A a \in Admissions : adm[a].pc # "limit"
    /\ clock' = clock + TickMs
    /\ lastAdm' = NoLastAdm
    /\ UNCHANGED <<logs, adm, buckets, entered>>
    /\ UNCHANGED execVars
    /\ UNCHANGED provVars

AdmissionNext ==
    \/ \E a \in Admissions : Authenticate(a)
    \/ \E a \in Admissions : Consume(a)
    \/ Tick

AdmissionSpec == Init /\ [][AdmissionNext]_vars

\* The requests whose address headers and allow-list setting vary, and the
\* requests from an address off the list that differ in route, key or user.
WrappedInputs ==
    [endpoint : {"execute"}, key : {"sim_svc_a"}, canvasUserId : {"u_linked"},
     headers : AddressHeaders, setting : {<<"10.0.0.1">>}]
        \cup [endpoint : {"execute"}, key : {"sim_svc_a"}, canvasUserId : {"u_linked"},
              headers : {NoHeaders, [NoHeaders EXCEPT !.realIp = "10.0.0.1"],
                         [NoHeaders EXCEPT !.forwardedFor = <<"127.0.0.1">>,
                                           !.realIp = "10.0.0.1"]},
              setting : AllowlistSettings]
        \cup [endpoint : {"execute", "schema"}, key : {"sim_svc_a", "invalid_key"},
              canvasUserId : {"none", "not-a-uuid"},
              headers : {[NoHeaders EXCEPT !.forwardedFor = <<"127.0.0.1">>],
                         [NoHeaders EXCEPT !.realIp = "10.0.0.1"]},
              setting : {<<"10.0.0.1">>}]

\* The wrapper of each route: GET blocks/[type]/schema is exported through
\* withCanvasAuthParams, the other routes here through withCanvasAuth.
wrapperOf(endpoint) ==
    IF endpoint = "schema" THEN "withCanvasAuthParams" ELSE "withCanvasAuth"

\* One request through withCanvasAuth or withCanvasAuthParams, from the
\* headers to the response or the call of the handler.
Wrapped(a) ==
    /\ adm[a].pc = "new"
    /\ (IF a = 1 THEN TRUE ELSE adm[a - 1].pc # "new")
    /\ \E request \in WrappedInputs :
       \E dbOk \in BOOLEAN :
       \E failAt \in 0..1 :
          LET input == [endpoint |-> request.endpoint, key |-> request.key,
                        canvasUserId |-> request.canvasUserId,
                        ipAddress |-> getRequestIp(request.headers),
                        allowlist |-> parseAllowlist(request.setting)]
              head == beforeRateLimit(input, dbOk)
              wrapper == wrapperOf(request.endpoint)
              gate == IF wrapper = "withCanvasAuth"
                      THEN withCanvasAuth(buckets, input, clock, dbOk, failAt)
                      ELSE withCanvasAuthParams(buckets, input, clock, dbOk, failAt)
          IN  /\ dbOk \/ failAt = 0
              /\ adm' = [adm EXCEPT ![a] = DoneAdmission]
              /\ buckets' = gate.buckets
              /\ logs' = afterRateLimit(logs, input, gate.admitted)
              /\ lastAdm' = [NoLastAdm EXCEPT
                               !.kind = "wrapped", !.input = input,
                               !.headers = request.headers, !.auth = head.auth,
                               !.stages = head.stages, !.response = gate.response,
                               !.retryAfter = gate.retryAfter, !.threw = gate.threw,
                               !.handlerCalled = gate.admitted,
                               !.wrapper = wrapper, !.context = gate.context]
    /\ UNCHANGED <<clock, entered>>
    /\ UNCHANGED execVars
    /\ UNCHANGED provVars

WrappedNext ==
    \/ \E a \in Admissions : Wrapped(a)
    \/ Tick

WrappedSpec == Init /\ [][WrappedNext]_vars

\* ------------------------------------------------------------------- claims

\* Rows by state.
running(row) == row.exists /\ row.endedAt = "null"

terminal(row) == row.exists /\ row.endedAt # "null"

\* The lifecycle state of a row: ended_at null or not, plus the level.
lifecycle(row) ==
    IF ~row.exists THEN "none"
    ELSE IF row.endedAt = "null" THEN "running"
    ELSE IF row.level = "error" THEN "failed" ELSE "completed"

\* The step just taken answered an execute request that found a row.
replayed == last.kind = "execute" /\ last.recordExisted

lastId == last.input.executionId

\* C1: an execute request that arrives when a row exists for its execution id
\* is answered from that row, makes no executeTool call and writes nothing.
C1_ReplayWithoutExecution ==
    /\ \A r \in Requests : req[r].pc \in {"admit", "exec"} => ~req[r].recordExisted
    /\ replayed =>
          /\ last.attempts = 0
          /\ ~last.wrote
          /\ last.response.envelope = "success"
          /\ last.response.data = statusPayload(last.existing, lastId)
          /\ last.existing = logs[lastId]

C1_Witness ==
    /\ replayed
    /\ last.response.data.status \in {"running", "completed", "failed"}
    /\ invocations[lastId] >= 1

\* C2: when no request for an execution id asked for a retry, executeTool is
\* called at most once for that id.
C2_AtMostOneInvocation ==
    \A e \in ExecIds : ~retried[e] => invocations[e] <= 1

\* C3: the logExecutionCompletion update is applied at most once per execution id.
C3_CompletedOnce ==
    \A e \in ExecIds : completions[e] <= 1

\* C4: no step changes the lifecycle state of a terminal row.
C4_TerminalIsFinal ==
    [][\A e \in ExecIds : terminal(logs[e]) => lifecycle(logs'[e]) = lifecycle(logs[e])]_vars

\* C5: the replay of a terminal row has the framing of the response the
\* completing handler returned (an error for a failed execution) and, for a
\* completed one, the same output.
C5_ReplayKeepsFraming ==
    (replayed /\ terminal(last.existing) /\ answered[lastId] # NoResponse) =>
        /\ last.response.envelope = answered[lastId].envelope
        /\ last.existing.level = "error" => last.response.envelope = "error"
        /\ answered[lastId].envelope = "success" =>
              last.response.data.output = answered[lastId].data.output

C7_LogFailureKeepsOutcome ==
    (/\ last.kind = "execute"
     /\ last.logThrew
     /\ last.outcome.kind = "result"
     /\ ~detectAsyncExecution(last.outcome.result.output).detected) =>
        IF last.outcome.result.success
        THEN last.response = completedResponse(lastId, "gmail", last.outcome.result.output)
        ELSE last.response = failureResponse(last.outcome.result.error)

C9_LateSuccessReported ==
    /\ \A e \in ExecIds :
          late[e] = "succeeded" => statusRoute(logs, e).data.status = "completed"
    /\ (replayed /\ last.afterLate) => last.response.data.status = "completed"

\* C10: a request every attempt of which ran into the timer is answered
\* TIMEOUT, 504.
C10_NeverResolvingTimesOut ==
    (last.kind = "execute" /\ last.attempts >= 1 /\ last.timeouts = last.attempts) =>
        /\ last.response.code = "TIMEOUT"
        /\ last.response.http = 504

\* C11: a request's action is attempted once when retryOnFailure is unset; when
\* it is set, a single attempt is one that succeeded, and there are never
\* more than two attempts.
C11_AtMostTwoAttempts ==
    (last.kind = "execute" /\ last.attempts >= 1) =>
        /\ last.attempts <= 2
        /\ ~last.input.retryOnFailure => last.attempts = 1
        /\ (last.input.retryOnFailure /\ last.attempts = 1) =>
              attemptSucceeded(last.outcome)

\* C14: a request answered INVALID_BLOCK_TYPE or USER_NOT_PROVISIONED made no
\* executeTool call and wrote nothing, and no row exists for its id unless one
\* did before; a request gets to logExecutionStart only with a block type of
\* the catalog and a linked user that owns a workspace.
C14_NoRecordBeforeResolution ==
    /\ \A r \in Requests :
          req[r].pc \in {"admit", "exec"} =>
              /\ req[r].input.blockType = "gmail"
              /\ req[r].input.canvasUserId = "u_linked"
    /\ (/\ last.kind = "execute"
        /\ last.response.code \in {"INVALID_BLOCK_TYPE", "USER_NOT_PROVISIONED"}) =>
          /\ last.attempts = 0
          /\ ~last.wrote
          /\ ~last.recordExisted
          /\ logs[lastId] = last.existing

C14_Witness ==
    /\ last.kind = "execute"
    /\ last.response.code = "USER_NOT_PROVISIONED"
    /\ last.response.http = 404
    /\ ~logs[lastId].exists
    /\ invocations[lastId] = 0

\* The admission stages in the order of the specification.
StageOrder == <<"auth", "context", "ip", "headers", "limit", "handler">>

isPrefix(s, t) == Len(s) <= Len(t) /\ \A i \in 1..Len(s) : s[i] = t[i]

answeredAdmission == lastAdm.kind = "admission"

\* C12: the stages a request went through are an initial part of
\* authentication, context validation, allow-list, required headers, rate
\* limiting, handler; the step that answers a request failing authentication
\* leaves the buckets alone, and a request answered RATE_LIMITED did not get to
\* the handler.
C12_StagesInOrder ==
    [][/\ lastAdm'.kind = "admission" => isPrefix(lastAdm'.stages, StageOrder)
       /\ (lastAdm'.kind = "admission" /\ ~lastAdm'.auth.authenticated) =>
             /\ lastAdm'.stages = <<"auth">>
             /\ lastAdm'.consulted = <<>>
             /\ buckets' = buckets
             /\ ~lastAdm'.handlerCalled
       /\ (lastAdm'.kind = "admission" /\ lastAdm'.response.code = "RATE_LIMITED") =>
             /\ lastAdm'.stages = SubSeq(StageOrder, 1, 5)
             /\ ~lastAdm'.handlerCalled
             /\ logs' = logs
       /\ (lastAdm'.kind = "admission" /\ lastAdm'.handlerCalled) =>
             /\ lastAdm'.stages = StageOrder
             /\ lastAdm'.auth.authenticated
             /\ lastAdm'.response = NoResponse]_vars

C12_Witness ==
    /\ answeredAdmission
    /\ lastAdm.response.code = "RATE_LIMITED"
    /\ lastAdm.response.http = 429
    /\ lastAdm.rejectedAt = 1
    /\ ~lastAdm.threw
    /\ \E k \in BucketKeys : buckets[k] # NoBucket /\ buckets[k].tokens = 0

\* C13: the step in which a request is rejected at admission (bad key, scope,
\* headers, address, quota) leaves the execution log as it was; the log
\* changes only in a step that calls the handler.
C13_RejectionLeavesLog ==
    [][/\ (lastAdm'.kind = "admission" /\ ~lastAdm'.handlerCalled) =>
             /\ lastAdm'.response.code \in
                   {"UNAUTHORIZED", "INSUFFICIENT_SCOPE", "INTERNAL_ERROR",
                    "INVALID_PARAMS", "FORBIDDEN", "RATE_LIMITED"}
             /\ logs' = logs
       /\ logs' # logs => lastAdm'.handlerCalled]_vars

C13_Witness ==
    /\ answeredAdmission
    /\ ~lastAdm.handlerCalled
    /\ lastAdm.response.code = "RATE_LIMITED"
    /\ logs["e1"].exists

\* The stored key a request presented, when its lookup found one.
presentedRecord ==
    IF \E k \in ServiceApiKeys : k.keyHash = hashKey(lastAdm.input.key)
    THEN CHOOSE k \in ServiceApiKeys : k.keyHash = hashKey(lastAdm.input.key)
    ELSE NoKeyRecord

\* C15: unless the key lookup itself failed, the authenticator reports no key
\* as MISSING_KEY, a malformed or unknown key as INVALID_KEY, a stored key that
\* is inactive as INACTIVE_KEY whatever its expiry and scopes, an active
\* expired one as EXPIRED_KEY whatever its scopes, and only an active
\* unexpired one as INSUFFICIENT_SCOPE.
C15_AuthenticatorOrder ==
    (answeredAdmission /\ lastAdm.auth.code # "INTERNAL_ERROR") =>
        LET key == lastAdm.input.key
            k == presentedRecord
            code == lastAdm.auth.code
        IN  /\ key = "none" => code = "MISSING_KEY"
            /\ key = "invalid_key" => code = "INVALID_KEY"
            /\ (key \notin {"none", "invalid_key"} /\ k = NoKeyRecord) => code = "INVALID_KEY"
            /\ (k # NoKeyRecord /\ ~k.isActive) => code = "INACTIVE_KEY"
            /\ (k # NoKeyRecord /\ k.isActive /\ k.expired) => code = "EXPIRED_KEY"
            /\ code = "INSUFFICIENT_SCOPE" => (k.isActive /\ ~k.expired)

C15_Witness ==
    /\ answeredAdmission
    /\ lastAdm.input.key = "sim_svc_off"
    /\ ~presentedRecord.isActive
    /\ presentedRecord.expired
    /\ ~hasAllScopes(presentedRecord.permissions, {"blocks:execute"})
    /\ lastAdm.auth.code = "INACTIVE_KEY"

\* C16: a request with an active, unexpired key reaches the handler only if
\* every scope the endpoint requires is in the key's stored scopes; with a
\* required scope missing it is answered INSUFFICIENT_SCOPE (403) and the
\* handler is not called, and a key holding every required scope is never
\* answered INSUFFICIENT_SCOPE.
C16_HandlerNeedsScopes ==
    (answeredAdmission /\ presentedRecord # NoKeyRecord) =>
        LET k == presentedRecord
            required == endpointOptions(lastAdm.input.endpoint).scopes
        IN  /\ lastAdm.handlerCalled =>
                   /\ k.isActive /\ ~k.expired
                   /\ required \subseteq k.permissions
            /\ (/\ k.isActive /\ ~k.expired
                /\ lastAdm.auth.code # "INTERNAL_ERROR"
                /\ ~(required \subseteq k.permissions)) =>
                   /\ lastAdm.auth.code = "INSUFFICIENT_SCOPE"
                   /\ lastAdm.response.code = "INSUFFICIENT_SCOPE"
                   /\ lastAdm.response.http = 403
                   /\ ~lastAdm.handlerCalled
            /\ required \subseteq k.permissions =>
                   lastAdm.auth.code # "INSUFFICIENT_SCOPE"

C16_Witness ==
    /\ answeredAdmission
    /\ lastAdm.input.key = "sim_svc_list"
    /\ lastAdm.input.endpoint = "execute"
    /\ presentedRecord.isActive /\ ~presentedRecord.expired
    /\ presentedRecord.permissions = {"blocks:list"}
    /\ lastAdm.response.http = 403
    /\ ~lastAdm.handlerCalled

\* An answered request that went through the rate limiter; its position is
\* its place among the requests that drew on its key's service-per-minute
\* bucket in that bucket's current refill interval.
limitedAdmission == answeredAdmission /\ lastAdm.position > 0

perMinuteQuota == lastAdm.auth.context.rateLimitPerMinute

fixedOrder(answer) ==
    LET context == answer.auth.context
        user == answer.input.canvasUserId
        s == serviceBucketKey(context)
        u == userBucketKey(context, user)
        minute(key) == [key |-> key, limit |-> context.rateLimitPerMinute,
                        intervalMs |-> MINUTE_MS]
        day(key) == [key |-> dayKey(key), limit |-> context.rateLimitPerDay,
                     intervalMs |-> DAY_MS]
    IN  IF user = "none" THEN << minute(s), day(s) >>
        ELSE << minute(s), day(s), minute(u), day(u) >>

\* C18: the buckets a request consulted are the limited buckets of the fixed
\* order up to and including the one that rejected it (all of them when it is
\* allowed); the rejection carries that bucket's retry-after, and the
\* rejecting step leaves every later bucket as it was.
C18_BucketsInOrder ==
    [][(lastAdm'.kind = "admission" /\ lastAdm'.stages # <<>>
          /\ lastAdm'.stages[Len(lastAdm'.stages)] \in {"limit", "handler"}) =>
          LET answer == lastAdm'
              order == fixedOrder(answer)
              upTo == IF answer.rejectedAt > 0 THEN answer.rejectedAt ELSE Len(order)
              rejecting == order[answer.rejectedAt]
          IN  /\ answer.consulted =
                    SelectSeq(SubSeq(order, 1, upTo), LAMBDA b : b.limit > 0)
              /\ answer.handlerCalled <=> answer.rejectedAt = 0
              /\ answer.rejectedAt > 0 =>
                    /\ answer.response = rateLimitResponse
                    /\ \A i \in (answer.rejectedAt + 1)..Len(order) :
                          buckets'[order[i].key] = buckets[order[i].key]
                    /\ ~answer.threw =>
                          /\ rejecting.limit > 0
                          /\ buckets'[rejecting.key].tokens = 0
                          /\ answer.retryAfter =
                                retryAfterSeconds(buckets'[rejecting.key].lastRefillAt
                                                  + rejecting.intervalMs - clock)
                          /\ answer.retryAfter > 0]_vars

C18_Witness ==
    /\ answeredAdmission
    /\ lastAdm.input.canvasUserId # "none"
    /\ lastAdm.rejectedAt = 2
    /\ ~lastAdm.threw
    /\ Len(lastAdm.consulted) = 2
    /\ lastAdm.consulted[2].key = dayKey(serviceBucketKey(lastAdm.auth.context))
    /\ lastAdm.retryAfter = (DAY_MS - MINUTE_MS) \div 1000

\* C19: a request whose bucket check raised an error is answered RATE_LIMITED
\* (429) with a retry hint of one minute (60000 ms); its handler is not
\* called and the execution log is left as it was.
C19_FailsClosed ==
    [][(lastAdm'.kind = "admission" /\ lastAdm'.threw) =>
          /\ ~lastAdm'.handlerCalled
          /\ lastAdm'.response = rateLimitResponse
          /\ lastAdm'.response.code = "RATE_LIMITED"
          /\ lastAdm'.response.http = 429
          /\ lastAdm'.retryAfter * 1000 = 60000
          /\ lastAdm'.stages = SubSeq(StageOrder, 1, 5)
          /\ logs' = logs]_vars

C19_Witness ==
    /\ answeredAdmission
    /\ lastAdm.threw
    /\ lastAdm.rejectedAt = 3
    /\ lastAdm.input.endpoint = "execute"
    /\ lastAdm.input.canvasUserId = "u_linked"
    /\ lastAdm.response.code = "RATE_LIMITED"
    /\ ~logs["e1"].exists

\* The buckets the requests of a stored key draw on, for any user.
bucketsOf(key) ==
    { b.key : b \in UNION { { bucketOrder(key, user)[i] : i \in 1..4 } :
                              user \in UserHeaders \ {"none"} } }

\* The two per-user buckets of a stored key and a user.
userBucketsOf(key, user) ==
    { userBucketKey(key, user), dayKey(userBucketKey(key, user)) }

\* C20: a step of a request made with one service key leaves the buckets of
\* every other stored key as they were, and a step of a request for one
\* external user leaves the buckets of every other user of the same key as
\* they were.
C20_QuotaIsolated ==
    [][\A a \in Admissions :
          (adm[a].pc = "limit" /\ adm'[a] # adm[a]) =>
              /\ \A other \in ServiceApiKeys :
                    other.id # adm[a].context.id =>
                        \A b \in bucketsOf(other) \cap DOMAIN buckets :
                            buckets'[b] = buckets[b]
              /\ \A user \in UserHeaders \ {"none", adm[a].input.canvasUserId} :
                    \A b \in userBucketsOf(adm[a].context, user) \cap DOMAIN buckets :
                        buckets'[b] = buckets[b]]_vars

\* ------------------------------------------------------ provisioning claims

\* The external id of the provisioning call p that has just taken its first
\* step.
begunFor(p) ==
    IF prov'[p].pc = "done" THEN lastProv'.canvasUserId
    ELSE prov'[p].body.canvasUserId

\* C21: a provisioning call for an external id that was already answered 201,
\* when its lookup does not fail, changes no table and is answered 409 with
\* alreadyExisted true and the internal user id and link id of that 201,
\* whatever email and name it carries.
C21_SecondCallReturnsExisting ==
    [][\A p \in Provisions :
          (/\ prov[p].pc = "new" /\ prov'[p].pc # "new"
           /\ begunFor(p) \in ExternalIds
           /\ firstProv[begunFor(p)] # NoProvisioningData
           /\ ~lastProv'.fault) =>
              /\ prov'[p].pc = "done"
              /\ lastProv'.path = "linked"
              /\ lastProv'.response.http = 409
              /\ lastProv'.response.envelope = "success"
              /\ lastProv'.response.data.alreadyExisted
              /\ lastProv'.response.data.simUserId = firstProv[begunFor(p)].simUserId
              /\ lastProv'.response.data.linkId = firstProv[begunFor(p)].linkId
              /\ pdb' = pdb]_vars

C21_Witness ==
    /\ lastProv.kind = "provision"
    /\ lastProv.path = "linked"
    /\ lastProv.response.http = 409
    /\ lastProv.response.data.alreadyExisted
    /\ lastProv.body.email # firstProv[lastProv.canvasUserId].email
    /\ lastProv.response.data.simUserId = firstProv[lastProv.canvasUserId].simUserId
    /\ lastProv.response.data.linkId = firstProv[lastProv.canvasUserId].linkId

\* C22: a call for an external id without a link whose email belongs to an
\* existing user creates the link to that user and nothing else and is
\* answered 201 with that user's id, so that every external id linked to the
\* only user with an email has the same internal user id; a call goes on to
\* create a new account only if it found no user with its email.
C22_EmailMatchLinksSameUser ==
    [][/\ (lastProv'.kind = "provision" /\ lastProv'.path = "link"
             /\ lastProv'.response.envelope = "success") =>
             LET body == lastProv'.body
                 data == lastProv'.response.data
             IN  /\ lastProv'.response.http = 201
                 /\ ~data.alreadyExisted
                 /\ \E u \in pdb.user : u.id = data.simUserId /\ u.email = body.email
                 /\ pdb'.account = pdb.account \cup
                       {accountRow(data.linkId, body.canvasUserId, data.simUserId)}
                 /\ data.linkId \notin {l.id : l \in pdb.account}
                 /\ \A t \in Tables \ {"account"} : pdb'[t] = pdb[t]
                 /\ pdb'.workflowState = pdb.workflowState
                 /\ Cardinality(findUserByEmail(pdb, body.email)) = 1 =>
                       \A l \in pdb'.account :
                          (\E u \in pdb.user : u.id = l.userId /\ u.email = body.email)
                              => l.userId = data.simUserId
       /\ \A p \in Provisions :
             (prov[p].pc = "email" /\ prov'[p].pc = "tx") =>
                 \A u \in pdb.user : u.email # prov[p].body.email]_vars

C22_Witness ==
    /\ lastProv.kind = "provision"
    /\ lastProv.path = "link"
    /\ lastProv.response.http = 201
    /\ lastProv.response.data.simUserId # "sim-user-0"
    /\ \E l \in pdb.account :
          /\ l.accountId # lastProv.canvasUserId
          /\ l.userId = lastProv.response.data.simUserId
          /\ firstProv[l.accountId].simUserId = l.userId
    /\ Cardinality(pdb.user) = 2
    /\ Cardinality(pdb.workspace) = 2
    /\ Cardinality(pdb.account) = 2

\* The tables that hold a row of the account a provisioning call makes.
accountTables(store, p) ==
    LET userId == randomUUID("sim-user", p)
        workspaceId == randomUUID("workspace", p)
    IN  { t \in Tables :
            CASE t = "user" -> \E r \in store.user : r.id = userId
              [] t = "userStats" -> \E r \in store.userStats : r.userId = userId
              [] t = "account" -> \E r \in store.account :
                                      r.id = randomUUID("link", p) /\ r.userId = userId
              [] t = "workspace" -> \E r \in store.workspace : r.ownerId = userId
              [] t = "permissions" -> \E r \in store.permissions :
                                          r.userId = userId /\ r.entityId = workspaceId
              [] t = "workflow" -> \E r \in store.workflow : r.workspaceId = workspaceId }

\* C23: in every state the tables hold, of the account of each provisioning
\* call, either all six rows (user, usage limit, link, workspace, admin
\* permission, workflow) or none; after a call whose transaction was ended by
\* an error they hold none.
C23_AllOrNothing ==
    /\ \A p \in Provisions : accountTables(pdb, p) \in {{}, Tables}
    /\ (lastProv.kind = "provision" /\ lastProv.path = "new"
          /\ lastProv.response.envelope = "error") =>
              accountTables(pdb, lastProv.call) = {}

C23_Witness ==
    /\ lastProv.kind = "provision"
    /\ lastProv.path = "new"
    /\ lastProv.fault
    /\ lastProv.inserted = 3
    /\ accountTables(pdb, lastProv.call) = {}
    /\ \A u \in pdb.user : u.email # lastProv.body.email

C25_ConflictOnUniqueViolation ==
    (lastProv.kind = "provision" /\ lastProv.violation) =>
        /\ lastProv.response.envelope = "error"
        /\ lastProv.response.code = "USER_EXISTS"
        /\ lastProv.response.http = 409
        /\ lastProv.response.code # "INTERNAL_ERROR"
        /\ accountTables(pdb, lastProv.call) = {}
        /\ \A l \in pdb.account : l.id # randomUUID("link", lastProv.call)
        /\ \E l \in pdb.account : l.accountId = lastProv.canvasUserId

C25_Witness ==
    /\ lastProv.kind = "provision"
    /\ lastProv.violation
    /\ lastProv.path = "new"
    /\ lastProv.inserted = 2
    /\ lastProv.response.code = "USER_EXISTS"
    /\ accountTables(pdb, lastProv.call) = {}

\* C26: a provisioning call whose seeding of the default workflow state failed
\* after the commit is answered 201 with the new internal user id, and the
\* user, usage limit, link, workspace, permission and workflow rows of the
\* account are all in the tables.
C26_SeedFailureKeepsAccount ==
    (lastProv.kind = "provision" /\ lastProv.seedFailed) =>
        /\ lastProv.response.http = 201
        /\ lastProv.response.envelope = "success"
        /\ lastProv.response.data.simUserId = randomUUID("sim-user", lastProv.call)
        /\ lastProv.response.data.linkId = randomUUID("link", lastProv.call)
        /\ accountTables(pdb, lastProv.call) = Tables
        /\ randomUUID("workflow", lastProv.call) \notin pdb.workflowState

C26_Witness ==
    /\ lastProv.kind = "provision"
    /\ lastProv.seedFailed
    /\ lastProv.response.http = 201
    /\ accountTables(pdb, lastProv.call) = Tables
    /\ pdb.workflowState = {}

\* ------------------------------------------------------ status route claims

\* The step is an execute request returning from the async-job path: the
\* action's result has success = true, detectAsyncExecution detects a job and
\* the update of the row did not throw.
asyncJobReturned ==
    /\ last'.kind = "execute"
    /\ last'.outcome.kind = "result"
    /\ last'.outcome.result.success
    /\ detectAsyncExecution(last'.outcome.result.output).detected
    /\ ~last'.logThrew

\* The step is a status request whose select returned.
statusAnswered == last'.kind = "status" /\ ~last'.logThrew

\* What the async-job path returns and writes: 202, running, a pollUrl; of the
\* row of the execution id only the payload changes, no other row changes.
asyncJobEffect ==
    LET id == last'.input.executionId
        async == detectAsyncExecution(last'.outcome.result.output)
    IN  /\ last'.response.http = 202
        /\ last'.response.envelope = "success"
        /\ last'.response.data.status = "running"
        /\ last'.response.data.pollUrl = pollUrl(id)
        /\ logs'[id].exists = logs[id].exists
        /\ logs'[id].endedAt = logs[id].endedAt
        /\ logs'[id].level = logs[id].level
        /\ logs[id].exists =>
              /\ logs'[id].progress = async.progress
              /\ logs'[id].currentStep = async.currentStep
        /\ \A e \in ExecIds \ {id} : logs'[e] = logs[e]

C28_StatusReadOnly ==
    [][last'.kind = "status" =>
          /\ logs' = logs
          /\ invocations' = invocations
          /\ completions' = completions
          /\ ~last'.logThrew =>
                last'.response =
                    (IF ~last'.existing.exists THEN notFoundResponse
                     ELSE singleResponse(statusPayload(last'.existing,
                                                       last'.input.executionId), 200))
          /\ last'.existing = logs'[last'.input.executionId]]_vars

\* A status request answered from a terminal row that an execute request wrote.
C28_Witness ==
    /\ last.kind = "status"
    /\ ~last.logThrew
    /\ terminal(logs[lastId])
    /\ invocations[lastId] >= 1
    /\ last.response.http = 200
    /\ last.response.data.status = "completed"
    /\ last.response.data.output = OrEmpty(logs[lastId].response.output)

\* ------------------------------------------------------------ fault claims

\* The fixed texts of the 500 responses.
InternalErrorMessages == {"Authentication service error", "Failed to provision user"}

\* C29 as stated: a provisioning request during which the key lookup, the
\* bucket storage or the database threw is answered INTERNAL_ERROR, 500, with
\* a fixed message.
C29_FaultsAreInternalErrors ==
    (lastProv.kind = "provision" /\ lastProv.fault) =>
        /\ lastProv.response.http = 500
        /\ lastProv.response.code = "INTERNAL_ERROR"
        /\ lastProv.response.message \in InternalErrorMessages

\* C29 amended: a fault of the key lookup is answered INTERNAL_ERROR, 500,
\* "Authentication service error"; a fault of the database in the handler
\* INTERNAL_ERROR, 500, "Failed to provision user", unless it is a unique
\* violation, which is answered USER_EXISTS, 409, or a failure of the workflow
\* seeding, which is not reported (201); a fault of the bucket storage is
\* answered RATE_LIMITED, 429, retry after 60 seconds. No response carries
\* the message of the error thrown.
C29_FaultsReportedFixed ==
    lastProv.kind = "provision" =>
        /\ (lastProv.fault /\ lastProv.path = "auth") =>
              lastProv.response = internalErrorResponse("Authentication service error")
        /\ (lastProv.fault /\ lastProv.path = "limit") =>
              /\ lastProv.response = errorResponse("RATE_LIMITED", "Rate limit exceeded", 429)
              /\ lastProv.retryAfter = 60
        /\ (lastProv.fault /\ lastProv.path \notin {"auth", "limit"}) =>
              lastProv.response = internalErrorResponse("Failed to provision user")
        /\ lastProv.violation =>
              lastProv.response =
                  userExistsResponse("User provisioning conflict - please retry")
        /\ lastProv.seedFailed => lastProv.response.http = 201
        /\ lastProv.response.message \notin {FaultMessage, UniqueViolationMessage}

\* The second call passes the key lookup, the bucket storage throws and the
\* call is answered 429, while the first call's token stays taken.
C29_Witness ==
    /\ lastProv.kind = "provision"
    /\ lastProv.call = 2
    /\ lastProv.fault
    /\ lastProv.path = "limit"
    /\ lastProv.response.http = 429
    /\ lastProv.retryAfter = 60
    /\ buckets[serviceBucketKey(findKeyRecord(hashKey(ProvisionCall.key)))].tokens = 999

\* ------------------------------------------------- provisioned-user claims

\* The external id was answered 201 by the new-account path: the user and the
\* link of the response are the ones one call of createNewSimUser made.
createdAccount(u) ==
    /\ firstProv[u] # NoProvisioningData
    /\ \E p \in Provisions :
          /\ firstProv[u].simUserId = randomUUID("sim-user", p)
          /\ firstProv[u].linkId = randomUUID("link", p)

\* C30: once an external id has been answered 201 by the new-account path,
\* a lookup of it is answered 200 with the user id of that 201 and a workspace
\* id that is not null, and the user and workspace resolution of an execute
\* request for it ends with no response (neither USER_NOT_PROVISIONED nor
\* 'User workspace not found').
C30_ProvisionedUserResolves ==
    /\ (lastProv.kind = "lookup" /\ createdAccount(lastProv.canvasUserId)) =>
          /\ lastProv.response.http = 200
          /\ lastProv.response.data.simUserId = firstProv[lastProv.canvasUserId].simUserId
          /\ lastProv.response.data.simWorkspaceId # "null"
    /\ (lastProv.kind = "execute" /\ createdAccount(lastProv.canvasUserId)) =>
          lastProv.response = NoResponse
    /\ \A u \in ExternalIds :
          createdAccount(u) =>
              /\ Cardinality(lookupResponses(pdb, u)) = 1
              /\ resolutionOutcomes(pdb, u) = {NoResponse}

\* A lookup of an external id after its new-account provisioning, answered
\* with the user and the workspace that provisioning made.
C30_Witness ==
    /\ lastProv.kind = "lookup"
    /\ createdAccount(lastProv.canvasUserId)
    /\ lastProv.response.http = 200
    /\ \E p \in Provisions :
          /\ lastProv.response.data.simUserId = randomUUID("sim-user", p)
          /\ lastProv.response.data.simWorkspaceId = randomUUID("workspace", p)
          /\ prov[p].pc = "done"

\* --------------------------------------------------- execute route claims

resolvedClientIp(headers) ==
    IF headers.forwardedFor # <<>> /\ headers.forwardedFor[1] # ""
    THEN trim(headers.forwardedFor[1])
    ELSE IF headers.realIp # "none" THEN trim(headers.realIp)
    ELSE headers.peer

forbiddenIp == errorResponse("FORBIDDEN", "IP address not allowed", 403)

\* What the allow-list does to the request that just went through
\* withCanvasAuth: off the list it is answered 403 FORBIDDEN with no bucket
\* touched and no handler called; with an empty list it is not answered so.
allowlistApplied(before, after, lastAdmAfter, logsBefore, logsAfter) ==
    LET ip == resolvedClientIp(lastAdmAfter.headers)
        list == lastAdmAfter.input.allowlist
    IN  /\ (list # {} /\ (ip = "none" \/ ip \notin list)) =>
               /\ lastAdmAfter.response = forbiddenIp
               /\ after = before
               /\ logsAfter = logsBefore
               /\ ~lastAdmAfter.handlerCalled
        /\ list = {} => lastAdmAfter.response # forbiddenIp

\* C33: with a non-empty allow-list, a request whose resolved client address
\* is absent or off the list is answered 403 FORBIDDEN, the rate limiter and
\* the handler not being called; with an empty allow-list no request is
\* answered so.
C33_OffListIsForbidden ==
    [][lastAdm'.kind = "wrapped" =>
          allowlistApplied(buckets, buckets', lastAdm', logs, logs')]_vars

\* C33, for the requests that reach the allow-list: an authenticated request
\* with valid context headers whose resolved client address is absent or off
\* a non-empty allow-list is answered 403 FORBIDDEN, the rate limiter and the
\* handler not being called; with an empty allow-list no request is answered
\* so.
C33_OffListAfterChecks ==
    [][(/\ lastAdm'.kind = "wrapped"
        /\ lastAdm'.auth.authenticated
        /\ contextValid(lastAdm'.auth.context, lastAdm'.input.canvasUserId)) =>
          allowlistApplied(buckets, buckets', lastAdm', logs, logs')]_vars

C33_Witness ==
    /\ lastAdm.kind = "wrapped"
    /\ lastAdm.input.allowlist = {"10.0.0.1", "10.0.0.2"}
    /\ lastAdm.headers.forwardedFor = <<"127.0.0.1">>
    /\ lastAdm.headers.realIp = "10.0.0.1"
    /\ lastAdm.auth.authenticated
    /\ lastAdm.response = forbiddenIp
    /\ ~lastAdm.handlerCalled
    /\ \A k \in DOMAIN buckets : buckets[k] = NoBucket

\* ------------------------------------------------------ rate limiter claims

\* The request that just went through withCanvasAuth was rejected by the rate
\* limiter, its storage answering.
rejectedByLimiter(lastAdmAfter) ==
    /\ lastAdmAfter.kind = "wrapped"
    /\ lastAdmAfter.response = rateLimitResponse
    /\ ~lastAdmAfter.threw

\* The rejection at the k-th bucket of the order: the request found that
\* bucket empty (after its refill), every limited bucket before it holds one
\* token less than the request found in it, every bucket after it is as it
\* was.
rejectedAtBucket(order, k, before, after, now) ==
    /\ order[k].limit > 0
    /\ refilled(before[order[k].key], now,
                buildConfig(order[k].limit, order[k].intervalMs)).tokens = 0
    /\ after[order[k].key].tokens = 0
    /\ \A j \in 1..(k - 1) :
          order[j].limit > 0 =>
             LET found == refilled(before[order[j].key], now,
                                   buildConfig(order[j].limit, order[j].intervalMs))
             IN  /\ found.tokens >= 1
                 /\ after[order[j].key] = [found EXCEPT !.tokens = @ - 1]
    /\ \A j \in (k + 1)..Len(order) : after[order[j].key] = before[order[j].key]

\* C34: a request the rate limiter rejects at some bucket of the order
\* (service per minute, service per day, user per minute, user per day) has
\* taken one token from every bucket earlier in the order, and the rejection
\* leaves those tokens taken.
C34_RejectionKeepsEarlierTokens ==
    [][rejectedByLimiter(lastAdm') =>
          LET order == bucketOrder(lastAdm'.auth.context, lastAdm'.input.canvasUserId)
          IN  \E k \in 1..Len(order) :
                 rejectedAtBucket(order, k, buckets, buckets', clock)]_vars

C34_Witness ==
    /\ rejectedByLimiter(lastAdm)
    /\ clock = MINUTE_MS
    /\ LET order == bucketOrder(lastAdm.auth.context, lastAdm.input.canvasUserId)
       IN  /\ buckets[order[1].key] = [tokens |-> 0, lastRefillAt |-> MINUTE_MS]
           /\ buckets[order[2].key] = [tokens |-> 0, lastRefillAt |-> 0]

\* ----------------------------------------------------------- replay claims

\* C35: the response to an execute request whose execution id has a row when
\* the handler looks for it is a function of that row and the id alone: it is
\* the replay of the row whatever block type and user the request carries, a
\* block type that does not resolve and a user without a link included, and
\* the request changes nothing.
C35_ReplayDependsOnRecordOnly ==
    [][(last'.kind = "execute" /\ last'.recordExisted) =>
          LET id == last'.input.executionId
          IN  /\ last'.response = buildExecutionStatusResponse(logs[id], id)
              /\ last'.response.envelope = "success"
              /\ logs' = logs
              /\ invocations' = invocations]_vars

C35_Witness ==
    /\ last.kind = "execute"
    /\ last.recordExisted
    /\ last.input.blockType = "nonexistent"
    /\ terminal(logs[lastId])
    /\ last.response = buildExecutionStatusResponse(logs[lastId], lastId)
    /\ last.response.http = 200

\* --------------------------------------------------------- row shape claims

\* C36: in every row ended_at is null exactly when the payload status is
\* "running", and a row with ended_at set has level error with status
\* "failed" or level info with status "completed".
C36_StatusAgreesWithRow ==
    \A e \in ExecIds :
       logs[e].exists =>
          /\ logs[e].endedAt = "null" <=> logs[e].status = "running"
          /\ logs[e].endedAt # "null" =>
                \/ logs[e].level = "error" /\ logs[e].status = "failed"
                \/ logs[e].level = "info" /\ logs[e].status = "completed"

\* ------------------------------------------------------- async job claims

\* The row of execution id e was left running by the async-job path: the last
\* log update applied to it is that of a handler that answered 202.
leftRunningByAsyncJob(e) == running(logs[e]) /\ answered[e].http = 202

\* C37: a row the async-job path left running is moved to a terminal state by
\* no step: it stays running, every execute request and every status request
\* answered for its execution id afterwards reports running, and no
\* executeTool call is made for that id afterwards.
C37_AsyncRowStaysRunning ==
    [][\A e \in ExecIds :
          leftRunningByAsyncJob(e) =>
             /\ running(logs'[e])
             /\ invocations'[e] = invocations[e]
             /\ (last'.kind \in {"execute", "status"} /\ last'.input.executionId = e
                 /\ ~last'.logThrew) =>
                    /\ last'.response.envelope = "success"
                    /\ last'.response.data.status = "running"]_vars

\* ------------------------------------------------------ execution id claims

identified(r) == req[r].pc = "done"

carriesNeither(r) ==
    /\ req[r].input.contextExecutionId = "none"
    /\ req[r].input.idempotencyKey = "none"

\* Request r was answered from the row of request q.
deduplicated(r, q) == req[r].recordExisted /\ req[r].input.found = q

\* C38: the execution id of a request is its context.executionId when it has
\* one, else its idempotency key when it has one, else a generated id; two
\* requests that carry neither get different ids and neither is answered from
\* the other's row, and so do two requests with the same idempotency key and
\* different context.executionId.
C38_ExecutionIdDerivation ==
    /\ \A r \in Requests :
          identified(r) =>
             LET input == req[r].input
             IN  /\ input.contextExecutionId # "none" =>
                       input.executionId = input.contextExecutionId
                 /\ (input.contextExecutionId = "none" /\ input.idempotencyKey # "none") =>
                       input.executionId = input.idempotencyKey
                 /\ carriesNeither(r) => input.executionId \in Uuids
    /\ \A r, q \in Requests :
          (r # q /\ identified(r) /\ identified(q)) =>
             /\ (carriesNeither(r) /\ carriesNeither(q)) =>
                    /\ req[r].input.executionId # req[q].input.executionId
                    /\ ~deduplicated(r, q)
             /\ (/\ req[r].input.idempotencyKey # "none"
                 /\ req[r].input.idempotencyKey = req[q].input.idempotencyKey
                 /\ req[r].input.contextExecutionId # "none"
                 /\ req[q].input.contextExecutionId # "none"
                 /\ req[r].input.contextExecutionId # req[q].input.contextExecutionId) =>
                    /\ req[r].input.executionId # req[q].input.executionId
                    /\ ~deduplicated(r, q)

\* Two requests with the same idempotency key and different
\* context.executionId, each with a row of its own.
C38_Witness ==
    /\ identified(1) /\ identified(2)
    /\ req[1].input.idempotencyKey = "k1" /\ req[2].input.idempotencyKey = "k1"
    /\ req[1].input.contextExecutionId = "e1" /\ req[2].input.contextExecutionId = "e2"
    /\ req[1].input.executionId = "e1" /\ req[2].input.executionId = "e2"
    /\ ~req[1].recordExisted /\ ~req[2].recordExisted

\* ------------------------------------------------- status equivalence claims

\* C39: for every row, the status route and an execute re-submission of its
\* execution id answer with the same payload (status, block type, output,
\* progress, current step, timing, usage, pollUrl) in the same envelope; only
\* the HTTP status of a running row differs, 200 from the status route and
\* 202 from execute.
C39_StatusMatchesReplay ==
    \A e \in ExecIds :
       logs[e].exists =>
          LET polled == statusHandler(logs, e, TRUE).response
              replay == buildExecutionStatusResponse(logs[e], e)
          IN  /\ polled.data = replay.data
              /\ polled.envelope = replay.envelope
              /\ polled.http = 200
              /\ replay.http = (IF running(logs[e]) THEN 202 ELSE 200)
              /\ last.kind = "status" /\ ~last.logThrew => last.response = polled
              /\ replayed => last.response = replay

\* A status request answered 200 from a running row without stored progress,
\* whose replay by execute is a 202 with the same payload.
C39_Witness ==
    /\ last.kind = "status"
    /\ ~last.logThrew
    /\ running(logs[lastId])
    /\ logs[lastId].progress < 0
    /\ last.response.http = 200
    /\ last.response.data.progress = 0
    /\ buildExecutionStatusResponse(logs[lastId], lastId).http = 202
    /\ buildExecutionStatusResponse(logs[lastId], lastId).data = last.response.data

\* ------------------------------------------------ wrapper equivalence claims

\* The request a caller sends, as the wrappers see it.
wrappedInput(request) ==
    [endpoint |-> request.endpoint, key |-> request.key,
     canvasUserId |-> request.canvasUserId,
     ipAddress |-> getRequestIp(request.headers),
     allowlist |-> parseAllowlist(request.setting)]

\* C40: withCanvasAuth and withCanvasAuthParams apply the same admission
\* sequence: for every request, state of the key and bucket stores and route
\* options, either both reject with the same response, or both call their
\* handler with the same request context, and both leave the same buckets.
C40_WrappersAgree ==
    \A request \in WrappedInputs :
    \A dbOk \in BOOLEAN :
    \A failAt \in 0..1 :
       LET plain == withCanvasAuth(buckets, wrappedInput(request), clock, dbOk, failAt)
           params == withCanvasAuthParams(buckets, wrappedInput(request), clock, dbOk, failAt)
       IN  /\ params.admitted = plain.admitted
           /\ params.response = plain.response
           /\ params.retryAfter = plain.retryAfter
           /\ params.context = plain.context
           /\ params.buckets = plain.buckets

\* A request withCanvasAuthParams answered 429 a minute after the quotas were
\* used up: the refilled per-minute bucket is consumed, the per-day bucket
\* rejects.
C40_Witness ==
    /\ lastAdm.kind = "wrapped"
    /\ lastAdm.wrapper = "withCanvasAuthParams"
    /\ lastAdm.response = rateLimitResponse
    /\ clock = MINUTE_MS
    /\ \E k \in DOMAIN buckets : buckets[k] = [tokens |-> 0, lastRefillAt |-> MINUTE_MS]

====
